---- MODULE Spec2Model ----
(***************************************************************************)
(* UTXO transaction construction engine of expo-trust-core:                *)
(*   BitcoinTransactionBuilder  (src/src/helpers/BitcoinTransactionBuilder.ts)   *)
(*   DogecoinTransactionBuilder (src/src/helpers/DogecoinTransactionBuilder.ts)  *)
(* with the parts of the balance checkers they call (isValidAddress,       *)
(* getUTXOs).  The two builders are modelled separately, each from its own *)
(* source file.                                                            *)
(*                                                                         *)
(* Conventions                                                             *)
(*  - an optional argument is a sequence: <<>> when omitted, <<v>> when    *)
(*    supplied;                                                            *)
(*  - a fee rate is a rational number held as an integer count of          *)
(*    1/RateDen units (the rate 1 is RateDen), so that Math.ceil has work  *)
(*    to do;                                                               *)
(*  - an address string is held by the three features the regular          *)
(*    expressions of isValidAddress look at: its prefix, the number of     *)
(*    characters after the prefix and whether all of these are in the      *)
(*    class [a-zA-HJ-NP-Z0-9].                                             *)
(***************************************************************************)
EXTENDS Integers, Sequences, FiniteSets, TLC

VARIABLES
    chain,          \* "BTC" | "DOGE": the builder class the current call is made on
    op,             \* "none" | "build" | "estimate" | "validate": the static method called
    pc,             \* "idle" | "fetching" (suspended at await getUTXOs) | "done"
    argFrom,        \* argument fromAddress of the current call
    argOptions,     \* argument options (build) / [amount, feeRate] (estimate)
    providerCalls,  \* number of getUTXOs invocations made by the current call
    snapshot,       \* the UTXO sequence getUTXOs resolved with, as the call leaves
                    \* it (<<>> before that)
    frame,          \* locals of selectUTXOs when it returned or threw, in the current call
    result,         \* what the current call settled with
    vtx,            \* the transaction handed to validateTransaction
    vsrc,           \* "none" | "built" | "external": where vtx came from
    report,         \* what validateTransaction returned
    fetched,        \* "none" | "pending" | "resolved" | "rejected": the getUTXOs promise
    calls           \* the build calls in flight side by side, one record per caller

vars == <<chain, op, pc, argFrom, argOptions, providerCalls, snapshot, frame,
          result, vtx, vsrc, report, fetched, calls>>

(***************************************************************************)
(* Bounds of the model                                                     *)
(***************************************************************************)
MaxUtxos == 3       \* longest UTXO sequence the provider returns
MaxTxUtxos == 3     \* longest utxos list of an externally supplied transaction
RateDen == 2        \* fee rates are multiples of 1/RateDen

Chains == {"BTC", "DOGE"}

(***************************************************************************)
(* Values                                                                  *)
(***************************************************************************)
Addr(p, n, ok) == [prefix |-> p, len |-> n, charsetOk |-> ok]
AddrBTC  == Addr("bc1", 39, TRUE)    \* bc1qxy2kgdygjrsqtzq2n0yrf2493p83kkfjhx0wlh
AddrDOGE == Addr("D", 33, TRUE)      \* D + 33 base58 characters
AddrShort == Addr("1", 10, TRUE)     \* too short for either chain
AddrBadChar == Addr("D", 33, FALSE)  \* right shape, but contains e.g. 'I' or 'O'

\* a second address of chain c, for the change
OtherAddress(c) == IF c = "BTC" THEN Addr("3", 33, TRUE) ELSE Addr("A", 33, TRUE)

Addresses == {AddrBTC, AddrDOGE, AddrShort, AddrBadChar,
              OtherAddress("BTC"), OtherAddress("DOGE")}
OwnAddress(c) == IF c = "BTC" THEN AddrBTC ELSE AddrDOGE

Utxo(t, n, v) == [txid |-> t, vout |-> n, value |-> v]

\* UTXOs the explorer APIs report for the sender, per chain
Pool(c) ==
    IF c = "BTC"
    THEN { Utxo("a", 0, 5000), Utxo("a", 1, 3000), Utxo("b", 0, 1000),
           Utxo("b", 1, 200), Utxo("c", 0, 100) }
    ELSE { Utxo("d", 0, 300000000), Utxo("d", 1, 169200000), Utxo("e", 0, 119200000),
           Utxo("e", 1, 100000000), Utxo("f", 0, 100000000) }

SeqsUpTo(S, n) == UNION { [1..k -> S] : k \in 0..n }

\* what getUTXOs may resolve with: any sequence, repeats included (the
\* providers map the HTTP response entry by entry, nothing is deduplicated)
Snapshots(c) == SeqsUpTo(Pool(c), MaxUtxos)

Amounts(c) ==
    IF c = "BTC" THEN {0, 500, 1000, 2314, 4000}
    ELSE {0, 50000000, 100000000, 140000000, 200000000}

\* supplied fee rates, in 1/RateDen units: 0, and 1.5 (BTC) / 100000.5 (DOGE)
Rates(c) ==
    IF c = "BTC" THEN {0, RateDen + 1, 5 * RateDen} ELSE {0, 100000 * RateDen + 1}

Strategies == {"largest-first", "smallest-first", "optimal"}

Opt(S) == {<<>>} \cup { <<v>> : v \in S }

BuildOptions(c) ==
    [ toAddress : {OwnAddress(c), AddrShort, AddrBadChar},
      amount : Amounts(c),
      feeRate : Opt(Rates(c)),
      changeAddress : Opt({AddrShort, OtherAddress(c)}),
      strategy : Opt(Strategies) ]

EstimateOptions(c) == [ amount : Amounts(c), feeRate : Opt(Rates(c)) ]

(***************************************************************************)
(* Library functions                                                       *)
(***************************************************************************)
\* Math.ceil(q) for the rational q = n / d, d > 0
MathCeil(n, d) == -((-n) \div d)

MathAbs(x) == IF x < 0 THEN -x ELSE x

RECURSIVE SumValues(_)
\* utxos.reduce((sum, u) => sum + u.value, 0)
SumValues(s) == IF s = <<>> THEN 0 ELSE SumValues(SubSeq(s, 1, Len(s) - 1)) + s[Len(s)].value

\* a plausible fault: an unstable sort, which hands back entries of equal key
\* in the reverse of their original order
SortByKey_TiesReversed(s, k) ==
    LET pos(i) == 1 + Cardinality({ j \in DOMAIN s :
                        k[j] < k[i] \/ (k[j] = k[i] /\ j > i) })
    IN  [ p \in DOMAIN s |-> s[CHOOSE i \in DOMAIN s : pos(i) = p] ]

\* Array.prototype.sort with the comparator (a, b) => key(a) - key(b): the
\* stable sort of s by the keys k (k[i] is the key of s[i]).  Element i goes to
\* the position after all elements with a smaller key and all earlier
\* elements with the same key.
SortByKey(s, k) ==
    LET pos(i) == 1 + Cardinality({ j \in DOMAIN s :
                        k[j] < k[i] \/ (k[j] = k[i] /\ j < i) })
    IN  [ p \in DOMAIN s |-> s[CHOOSE i \in DOMAIN s : pos(i) = p] ]

(***************************************************************************)
(* BitcoinBalanceChecker                                                   *)
(***************************************************************************)
\* /^(1|3|bc1)[a-zA-HJ-NP-Z0-9]{25,62}$/.test(address)
BitcoinIsValidAddress(address) ==
    /\ address.prefix \in {"1", "3", "bc1"}
    /\ address.charsetOk
    /\ address.len >= 25
    /\ address.len <= 62

(***************************************************************************)
(* DogecoinBalanceChecker                                                  *)
(***************************************************************************)
\* /^(D|9|A)[a-zA-HJ-NP-Z0-9]{33}$/.test(address)
DogecoinIsValidAddress(address) ==
    /\ address.prefix \in {"D", "9", "A"}
    /\ address.charsetOk
    /\ address.len = 33

(***************************************************************************)
(* BitcoinTransactionBuilder                                               *)
(***************************************************************************)
\* BitcoinEstimateTransactionSize with the branches of useSegwit exchanged
BitcoinEstimateTransactionSize_Legacy(inputCount, outputCount, useSegwit) ==
    IF useSegwit
    THEN (inputCount * 148) + (outputCount * 34) + 10
    ELSE (inputCount * 68) + (outputCount * 31) + 10

BitcoinEstimateTransactionSize(inputCount, outputCount, useSegwit) ==
    IF useSegwit
    THEN (inputCount * 68) + (outputCount * 31) + 10
    ELSE (inputCount * 148) + (outputCount * 34) + 10

\* a plausible fault: smallest-first taking the UTXOs as the provider gave them
BitcoinSortUTXOs_SmallestUnsorted(utxos, targetAmount, strategy) ==
    CASE strategy = "largest-first" ->
            SortByKey(utxos, [i \in DOMAIN utxos |-> -utxos[i].value])
      [] strategy = "smallest-first" -> utxos
      [] strategy = "optimal" ->
            SortByKey(utxos, [i \in DOMAIN utxos |-> MathAbs(utxos[i].value - targetAmount)])
      [] OTHER -> utxos

\* the switch on strategy: the sorted copy of utxos
BitcoinSortUTXOs(utxos, targetAmount, strategy) ==
    CASE strategy = "largest-first" ->
            SortByKey(utxos, [i \in DOMAIN utxos |-> -utxos[i].value])
      [] strategy = "smallest-first" ->
            SortByKey(utxos, [i \in DOMAIN utxos |-> utxos[i].value])
      [] strategy = "optimal" ->
            SortByKey(utxos, [i \in DOMAIN utxos |-> MathAbs(utxos[i].value - targetAmount)])
      [] OTHER -> utxos

\* BitcoinSettleChange with the dust added to the fee but still returned as change
BitcoinSettleChange_KeepsDust(selectedUTXOs, totalInput, targetAmount, txSize, outputCount, estimatedFee) ==
    LET change == totalInput - targetAmount - estimatedFee
        base == [ returned |-> TRUE, selectedUTXOs |-> selectedUTXOs,
                  totalInput |-> totalInput, txSize |-> txSize,
                  outputCount |-> outputCount ]
    IN  IF change > 0 /\ change < 546
        THEN base @@ [ estimatedFee |-> estimatedFee + change, change |-> change ]
        ELSE base @@ [ estimatedFee |-> estimatedFee, change |-> change ]

\* what selectUTXOs does with the change once totalInput covers amount + fee:
\* the locals at the return statement
BitcoinSettleChange(selectedUTXOs, totalInput, targetAmount, txSize, outputCount, estimatedFee) ==
    LET change == totalInput - targetAmount - estimatedFee
        base == [ returned |-> TRUE, selectedUTXOs |-> selectedUTXOs,
                  totalInput |-> totalInput, txSize |-> txSize,
                  outputCount |-> outputCount ]
    IN  IF change > 0 /\ change < 546
        THEN base @@ [ estimatedFee |-> estimatedFee + change, change |-> 0 ]
        ELSE base @@ [ estimatedFee |-> estimatedFee, change |-> change ]

RECURSIVE BitcoinSelectLoop(_, _, _, _, _, _, _)
\* a plausible fault: the fee of a step computed for a single output whatever
\* the projected output count
BitcoinSelectLoop_OneOutputFee(sortedUTXOs, i, selectedUTXOs, totalInput, estimatedFee, targetAmount, feeRate) ==
    IF i > Len(sortedUTXOs)
    THEN [ returned |-> FALSE, selectedUTXOs |-> selectedUTXOs, totalInput |-> totalInput,
           estimatedFee |-> estimatedFee, txSize |-> 0, outputCount |-> 0, change |-> 0 ]
    ELSE LET utxo == sortedUTXOs[i]
             selected2 == Append(selectedUTXOs, utxo)
             total2 == totalInput + utxo.value
             outputCount == IF total2 > targetAmount + estimatedFee + 546 THEN 2 ELSE 1
             txSize == BitcoinEstimateTransactionSize(Len(selected2), 1, TRUE)
             fee2 == MathCeil(txSize * feeRate, RateDen)
         IN  IF total2 >= targetAmount + fee2
             THEN BitcoinSettleChange(selected2, total2, targetAmount, txSize, outputCount, fee2)
             ELSE BitcoinSelectLoop(sortedUTXOs, i + 1, selected2, total2, fee2,
                                    targetAmount, feeRate)

\* the for loop of selectUTXOs from the i-th sorted UTXO on, entered with the
\* locals selectedUTXOs, totalInput, estimatedFee; yields the locals when the
\* function returns (returned = TRUE) or falls out of the loop
BitcoinSelectLoop(sortedUTXOs, i, selectedUTXOs, totalInput, estimatedFee, targetAmount, feeRate) ==
    IF i > Len(sortedUTXOs)
    THEN [ returned |-> FALSE, selectedUTXOs |-> selectedUTXOs, totalInput |-> totalInput,
           estimatedFee |-> estimatedFee, txSize |-> 0, outputCount |-> 0, change |-> 0 ]
    ELSE LET utxo == sortedUTXOs[i]
             selected2 == Append(selectedUTXOs, utxo)
             total2 == totalInput + utxo.value
             outputCount == IF total2 > targetAmount + estimatedFee + 546 THEN 2 ELSE 1
             txSize == BitcoinEstimateTransactionSize(Len(selected2), outputCount, TRUE)
             fee2 == MathCeil(txSize * feeRate, RateDen)
         IN  IF total2 >= targetAmount + fee2
             THEN BitcoinSettleChange(selected2, total2, targetAmount, txSize, outputCount, fee2)
             ELSE BitcoinSelectLoop(sortedUTXOs, i + 1, selected2, total2, fee2,
                                    targetAmount, feeRate)

\* the array passed to selectUTXOs as the function leaves it: the sort is
\* applied to the copy [...utxos], and nothing else writes to the argument
BitcoinUTXOsAtExit(utxos, targetAmount, strategy) == utxos

\* selectUTXOs: the locals at its exit
BitcoinSelectUTXOs(utxos, targetAmount, feeRate, strategy) ==
    BitcoinSelectLoop(BitcoinSortUTXOs(utxos, targetAmount, strategy), 1, <<>>, 0, 0,
                      targetAmount, feeRate)

\* BitcoinSelectOutcome with the fee left out of the amount reported as needed
BitcoinSelectOutcome_NeedWithoutFee(f, targetAmount) ==
    IF f.returned
    THEN [ ok |-> TRUE, selectedUTXOs |-> f.selectedUTXOs, totalInput |-> f.totalInput,
           fee |-> f.estimatedFee, change |-> f.change ]
    ELSE [ ok |-> FALSE, message |-> "Insufficient funds",
           need |-> targetAmount, have |-> f.totalInput ]

\* what selectUTXOs hands to its caller, from its locals f at exit: the
\* returned object, or the Error thrown after the loop
BitcoinSelectOutcome(f, targetAmount) ==
    IF f.returned
    THEN [ ok |-> TRUE, selectedUTXOs |-> f.selectedUTXOs, totalInput |-> f.totalInput,
           fee |-> f.estimatedFee, change |-> f.change ]
    ELSE [ ok |-> FALSE, message |-> "Insufficient funds",
           need |-> targetAmount + f.estimatedFee, have |-> f.totalInput ]

\* the destructuring defaults of buildBTCTransaction
BitcoinFeeRate(options) == IF options.feeRate = <<>> THEN 1 * RateDen ELSE options.feeRate[1]

BitcoinChangeAddress(fromAddress, options) ==
    IF options.changeAddress = <<>> THEN fromAddress ELSE options.changeAddress[1]

BitcoinStrategy(options) ==
    IF options.strategy = <<>> THEN "largest-first" ELSE options.strategy[1]

\* BuildBTCValidateInputs without the dust check on the amount
BuildBTCValidateInputs_NoDustCheck(fromAddress, options) ==
    IF ~BitcoinIsValidAddress(fromAddress) THEN "Invalid sender address"
    ELSE IF ~BitcoinIsValidAddress(options.toAddress) THEN "Invalid recipient address"
    ELSE IF options.amount <= 0 THEN "Amount must be greater than 0"
    ELSE ""

\* buildBTCTransaction up to its await: the message of the Error thrown by the
\* input validation, "" when it throws none and getUTXOs is called
BuildBTCValidateInputs(fromAddress, options) ==
    IF ~BitcoinIsValidAddress(fromAddress) THEN "Invalid sender address"
    ELSE IF ~BitcoinIsValidAddress(options.toAddress) THEN "Invalid recipient address"
    ELSE IF options.amount <= 0 THEN "Amount must be greater than 0"
    ELSE IF options.amount < 546 THEN "Amount is below dust limit (546 satoshis)"
    ELSE ""

\* buildBTCTransaction after getUTXOs resolved with utxos
BuildBTCAfterFetch(fromAddress, options, utxos) ==
    IF Len(utxos) = 0
    THEN [ kind |-> "error", message |-> "No UTXOs found for address" ]
    ELSE LET feeRate == BitcoinFeeRate(options)
             sel == BitcoinSelectOutcome(
                        BitcoinSelectUTXOs(utxos, options.amount, feeRate,
                                           BitcoinStrategy(options)),
                        options.amount)
         IN  IF ~sel.ok
             THEN [ kind |-> "error", message |-> sel.message,
                    need |-> sel.need, have |-> sel.have ]
             ELSE LET outputCount == IF sel.change > 0 THEN 2 ELSE 1
                      estimatedSize == BitcoinEstimateTransactionSize(
                                           Len(sel.selectedUTXOs), outputCount, TRUE)
                  IN  [ kind |-> "tx",
                        tx |-> [ utxos |-> sel.selectedUTXOs,
                                 toAddress |-> options.toAddress,
                                 amount |-> options.amount,
                                 changeAddress |-> BitcoinChangeAddress(fromAddress, options),
                                 changeAmount |-> sel.change,
                                 fee |-> sel.fee,
                                 byteFee |-> feeRate,
                                 totalInput |-> sel.totalInput,
                                 estimatedSize |-> estimatedSize ] ]

\* a plausible fault: the emptiness check left out, so that the selection runs
\* on no UTXOs at all
BitcoinEstimateCostAfterFetch_NoEmptyCheck(amount, feeRateArg, utxos) ==
    LET feeRate == IF feeRateArg = <<>> THEN 1 * RateDen ELSE feeRateArg[1]
        sel == BitcoinSelectOutcome(
                   BitcoinSelectUTXOs(utxos, amount, feeRate, "largest-first"), amount)
    IN  IF ~sel.ok
        THEN [ kind |-> "error", message |-> "Failed to estimate cost",
               cause |-> sel.message, need |-> sel.need, have |-> sel.have ]
        ELSE LET outputCount ==
                     IF SumValues(sel.selectedUTXOs) - amount - sel.fee > 546
                     THEN 2 ELSE 1
             IN  [ kind |-> "cost", fee |-> sel.fee, total |-> amount + sel.fee,
                   estimatedSize |-> BitcoinEstimateTransactionSize(
                                         Len(sel.selectedUTXOs), outputCount, TRUE) ]

\* estimateTransactionCost after getUTXOs resolved with utxos
BitcoinEstimateCostAfterFetch(amount, feeRateArg, utxos) ==
    IF Len(utxos) = 0
    THEN [ kind |-> "error", message |-> "No UTXOs found for address" ]
    ELSE LET feeRate == IF feeRateArg = <<>> THEN 1 * RateDen ELSE feeRateArg[1]
             sel == BitcoinSelectOutcome(
                        BitcoinSelectUTXOs(utxos, amount, feeRate, "largest-first"), amount)
         IN  IF ~sel.ok
             THEN [ kind |-> "error", message |-> "Failed to estimate cost",
                    cause |-> sel.message, need |-> sel.need, have |-> sel.have ]
             ELSE LET outputCount ==
                          IF SumValues(sel.selectedUTXOs) - amount - sel.fee > 546
                          THEN 2 ELSE 1
                      estimatedSize == BitcoinEstimateTransactionSize(
                                           Len(sel.selectedUTXOs), outputCount, TRUE)
                  IN  [ kind |-> "cost", fee |-> sel.fee, total |-> amount + sel.fee,
                        estimatedSize |-> estimatedSize ]

RECURSIVE DuplicateErrors(_, _)
\* a plausible fault: the Set keyed by txid alone, without the vout
DuplicateErrors_TxidOnly(utxos, utxoIds) ==
    IF utxos = <<>> THEN <<>>
    ELSE LET id == <<utxos[1].txid, utxos[1].vout>>
         IN  (IF utxos[1].txid \in utxoIds THEN << <<"Duplicate UTXO", id>> >> ELSE <<>>)
             \o DuplicateErrors(Tail(utxos), utxoIds \cup {utxos[1].txid})

\* the loop over tx.utxos at the end of validateTransaction (the same in both
\* builders): one error for each entry whose `${txid}:${vout}` is already in
\* the Set utxoIds, in the order of the entries
DuplicateErrors(utxos, utxoIds) ==
    IF utxos = <<>> THEN <<>>
    ELSE LET id == <<utxos[1].txid, utxos[1].vout>>
         IN  (IF id \in utxoIds THEN << <<"Duplicate UTXO", id>> >> ELSE <<>>)
             \o DuplicateErrors(Tail(utxos), utxoIds \cup {id})

\* errors.push(message) when cond holds
PushIf(cond, message) == IF cond THEN <<message>> ELSE <<>>

\* BitcoinValidateTransaction stopping at the first violated check
BitcoinValidateTransaction_FirstErrorOnly(tx) ==
    LET errors ==
            PushIf(Len(tx.utxos) = 0, <<"No UTXOs selected">>)
         \o PushIf(~BitcoinIsValidAddress(tx.toAddress), <<"Invalid recipient address">>)
         \o PushIf(~BitcoinIsValidAddress(tx.changeAddress), <<"Invalid change address">>)
         \o PushIf(tx.amount <= 0, <<"Amount must be greater than 0">>)
         \o PushIf(tx.amount < 546, <<"Amount is below dust limit (546 satoshis)">>)
         \o PushIf(tx.changeAmount > 0 /\ tx.changeAmount < 546,
                   <<"Change amount is below dust limit (546 satoshis)">>)
         \o PushIf(tx.totalInput < tx.amount + tx.fee, <<"Insufficient input amount">>)
         \o PushIf(tx.fee <= 0, <<"Fee must be greater than 0">>)
         \o DuplicateErrors(tx.utxos, {})
    IN  [ valid |-> Len(errors) = 0,
          errors |-> IF errors = <<>> THEN <<>> ELSE <<errors[1]>> ]

\* a plausible fault: the input check made strict, so that a transaction
\* without change (totalInput = amount + fee) is refused
BitcoinValidateTransaction_StrictInput(tx) ==
    LET errors ==
            PushIf(Len(tx.utxos) = 0, <<"No UTXOs selected">>)
         \o PushIf(~BitcoinIsValidAddress(tx.toAddress), <<"Invalid recipient address">>)
         \o PushIf(~BitcoinIsValidAddress(tx.changeAddress), <<"Invalid change address">>)
         \o PushIf(tx.amount <= 0, <<"Amount must be greater than 0">>)
         \o PushIf(tx.amount < 546, <<"Amount is below dust limit (546 satoshis)">>)
         \o PushIf(tx.changeAmount > 0 /\ tx.changeAmount < 546,
                   <<"Change amount is below dust limit (546 satoshis)">>)
         \o PushIf(tx.totalInput <= tx.amount + tx.fee, <<"Insufficient input amount">>)
         \o PushIf(tx.fee <= 0, <<"Fee must be greater than 0">>)
         \o DuplicateErrors(tx.utxos, {})
    IN  [ valid |-> Len(errors) = 0, errors |-> errors ]

BitcoinValidateTransaction(tx) ==
    LET errors ==
            PushIf(Len(tx.utxos) = 0, <<"No UTXOs selected">>)
         \o PushIf(~BitcoinIsValidAddress(tx.toAddress), <<"Invalid recipient address">>)
         \o PushIf(~BitcoinIsValidAddress(tx.changeAddress), <<"Invalid change address">>)
         \o PushIf(tx.amount <= 0, <<"Amount must be greater than 0">>)
         \o PushIf(tx.amount < 546, <<"Amount is below dust limit (546 satoshis)">>)
         \o PushIf(tx.changeAmount > 0 /\ tx.changeAmount < 546,
                   <<"Change amount is below dust limit (546 satoshis)">>)
         \o PushIf(tx.totalInput < tx.amount + tx.fee, <<"Insufficient input amount">>)
         \o PushIf(tx.fee <= 0, <<"Fee must be greater than 0">>)
         \o DuplicateErrors(tx.utxos, {})
    IN  [ valid |-> Len(errors) = 0, errors |-> errors ]

(***************************************************************************)
(* DogecoinTransactionBuilder                                              *)
(***************************************************************************)
\* a plausible fault: a single output assumed whatever outputCount is
DogecoinEstimateTransactionSize_OneOutput(inputCount, outputCount) ==
    (inputCount * 148) + 34 + 10

DogecoinEstimateTransactionSize(inputCount, outputCount) ==
    (inputCount * 148) + (outputCount * 34) + 10

\* a plausible fault: the optimal strategy ordered by value - targetAmount
\* without Math.abs
DogecoinSortUTXOs_SignedDistance(utxos, targetAmount, strategy) ==
    CASE strategy = "largest-first" ->
            SortByKey(utxos, [i \in DOMAIN utxos |-> -utxos[i].value])
      [] strategy = "smallest-first" ->
            SortByKey(utxos, [i \in DOMAIN utxos |-> utxos[i].value])
      [] strategy = "optimal" ->
            SortByKey(utxos, [i \in DOMAIN utxos |-> utxos[i].value - targetAmount])
      [] OTHER -> utxos

\* the switch on strategy: the sorted copy of utxos
DogecoinSortUTXOs(utxos, targetAmount, strategy) ==
    CASE strategy = "largest-first" ->
            SortByKey(utxos, [i \in DOMAIN utxos |-> -utxos[i].value])
      [] strategy = "smallest-first" ->
            SortByKey(utxos, [i \in DOMAIN utxos |-> utxos[i].value])
      [] strategy = "optimal" ->
            SortByKey(utxos, [i \in DOMAIN utxos |-> MathAbs(utxos[i].value - targetAmount)])
      [] OTHER -> utxos

\* DogecoinSettleChange with the dust limit of Bitcoin
DogecoinSettleChange_BitcoinDust(selectedUTXOs, totalInput, targetAmount, txSize, outputCount, estimatedFee) ==
    LET dustLimit == 546
        change == totalInput - targetAmount - estimatedFee
        base == [ returned |-> TRUE, selectedUTXOs |-> selectedUTXOs,
                  totalInput |-> totalInput, txSize |-> txSize,
                  outputCount |-> outputCount ]
    IN  IF change > 0 /\ change < dustLimit
        THEN base @@ [ estimatedFee |-> estimatedFee + change, change |-> 0 ]
        ELSE base @@ [ estimatedFee |-> estimatedFee, change |-> change ]

\* DogecoinSettleChange with the dust zeroed but not added to the fee
DogecoinSettleChange_DropsDust(selectedUTXOs, totalInput, targetAmount, txSize, outputCount, estimatedFee) ==
    LET dustLimit == 100000000
        change == totalInput - targetAmount - estimatedFee
        base == [ returned |-> TRUE, selectedUTXOs |-> selectedUTXOs,
                  totalInput |-> totalInput, txSize |-> txSize,
                  outputCount |-> outputCount ]
    IN  IF change > 0 /\ change < dustLimit
        THEN base @@ [ estimatedFee |-> estimatedFee, change |-> 0 ]
        ELSE base @@ [ estimatedFee |-> estimatedFee, change |-> change ]

\* what selectUTXOs does with the change once totalInput covers amount + fee:
\* the locals at the return statement
DogecoinSettleChange(selectedUTXOs, totalInput, targetAmount, txSize, outputCount, estimatedFee) ==
    LET dustLimit == 100000000
        change == totalInput - targetAmount - estimatedFee
        base == [ returned |-> TRUE, selectedUTXOs |-> selectedUTXOs,
                  totalInput |-> totalInput, txSize |-> txSize,
                  outputCount |-> outputCount ]
    IN  IF change > 0 /\ change < dustLimit
        THEN base @@ [ estimatedFee |-> estimatedFee + change, change |-> 0 ]
        ELSE base @@ [ estimatedFee |-> estimatedFee, change |-> change ]

RECURSIVE DogecoinSelectLoop(_, _, _, _, _, _, _)
\* a plausible fault: the projected output count taken without the fee estimate
\* held so far
DogecoinSelectLoop_OutputsWithoutFee(sortedUTXOs, i, selectedUTXOs, totalInput, estimatedFee, targetAmount, feeRate) ==
    IF i > Len(sortedUTXOs)
    THEN [ returned |-> FALSE, selectedUTXOs |-> selectedUTXOs, totalInput |-> totalInput,
           estimatedFee |-> estimatedFee, txSize |-> 0, outputCount |-> 0, change |-> 0 ]
    ELSE LET utxo == sortedUTXOs[i]
             selected2 == Append(selectedUTXOs, utxo)
             total2 == totalInput + utxo.value
             dustLimit == 100000000
             outputCount == IF total2 > targetAmount + dustLimit THEN 2 ELSE 1
             txSize == DogecoinEstimateTransactionSize(Len(selected2), outputCount)
             fee2 == MathCeil(txSize * feeRate, RateDen)
         IN  IF total2 >= targetAmount + fee2
             THEN DogecoinSettleChange(selected2, total2, targetAmount, txSize, outputCount, fee2)
             ELSE DogecoinSelectLoop(sortedUTXOs, i + 1, selected2, total2, fee2,
                                     targetAmount, feeRate)

\* a plausible fault: the loop bound off by one, so that the last sorted UTXO
\* is never added
DogecoinSelectLoop_StopsBeforeLast(sortedUTXOs, i, selectedUTXOs, totalInput, estimatedFee, targetAmount, feeRate) ==
    IF i >= Len(sortedUTXOs)
    THEN [ returned |-> FALSE, selectedUTXOs |-> selectedUTXOs, totalInput |-> totalInput,
           estimatedFee |-> estimatedFee, txSize |-> 0, outputCount |-> 0, change |-> 0 ]
    ELSE LET utxo == sortedUTXOs[i]
             selected2 == Append(selectedUTXOs, utxo)
             total2 == totalInput + utxo.value
             dustLimit == 100000000
             outputCount == IF total2 > targetAmount + estimatedFee + dustLimit THEN 2 ELSE 1
             txSize == DogecoinEstimateTransactionSize(Len(selected2), outputCount)
             fee2 == MathCeil(txSize * feeRate, RateDen)
         IN  IF total2 >= targetAmount + fee2
             THEN DogecoinSettleChange(selected2, total2, targetAmount, txSize, outputCount, fee2)
             ELSE DogecoinSelectLoop(sortedUTXOs, i + 1, selected2, total2, fee2,
                                     targetAmount, feeRate)

\* the for loop of selectUTXOs from the i-th sorted UTXO on, entered with the
\* locals selectedUTXOs, totalInput, estimatedFee; yields the locals when the
\* function returns (returned = TRUE) or falls out of the loop
DogecoinSelectLoop(sortedUTXOs, i, selectedUTXOs, totalInput, estimatedFee, targetAmount, feeRate) ==
    IF i > Len(sortedUTXOs)
    THEN [ returned |-> FALSE, selectedUTXOs |-> selectedUTXOs, totalInput |-> totalInput,
           estimatedFee |-> estimatedFee, txSize |-> 0, outputCount |-> 0, change |-> 0 ]
    ELSE LET utxo == sortedUTXOs[i]
             selected2 == Append(selectedUTXOs, utxo)
             total2 == totalInput + utxo.value
             dustLimit == 100000000
             outputCount == IF total2 > targetAmount + estimatedFee + dustLimit THEN 2 ELSE 1
             txSize == DogecoinEstimateTransactionSize(Len(selected2), outputCount)
             fee2 == MathCeil(txSize * feeRate, RateDen)
         IN  IF total2 >= targetAmount + fee2
             THEN DogecoinSettleChange(selected2, total2, targetAmount, txSize, outputCount, fee2)
             ELSE DogecoinSelectLoop(sortedUTXOs, i + 1, selected2, total2, fee2,
                                     targetAmount, feeRate)

\* a plausible fault: utxos.sort(...) in place of [...utxos].sort(...)
DogecoinUTXOsAtExit_SortedInPlace(utxos, targetAmount, strategy) ==
    DogecoinSortUTXOs(utxos, targetAmount, strategy)

\* the array passed to selectUTXOs as the function leaves it
DogecoinUTXOsAtExit(utxos, targetAmount, strategy) == utxos

\* selectUTXOs: the locals at its exit
DogecoinSelectUTXOs(utxos, targetAmount, feeRate, strategy) ==
    DogecoinSelectLoop(DogecoinSortUTXOs(utxos, targetAmount, strategy), 1, <<>>, 0, 0,
                       targetAmount, feeRate)

\* what selectUTXOs hands to its caller, from its locals f at exit: the
\* returned object, or the Error thrown after the loop
DogecoinSelectOutcome(f, targetAmount) ==
    IF f.returned
    THEN [ ok |-> TRUE, selectedUTXOs |-> f.selectedUTXOs, totalInput |-> f.totalInput,
           fee |-> f.estimatedFee, change |-> f.change ]
    ELSE [ ok |-> FALSE, message |-> "Insufficient funds",
           need |-> targetAmount + f.estimatedFee, have |-> f.totalInput ]

\* a plausible fault: the default of the Bitcoin builder (1 sat/byte) left in
\* the Dogecoin builder
DogecoinFeeRate_BitcoinDefault(options) ==
    IF options.feeRate = <<>> THEN 1 * RateDen ELSE options.feeRate[1]

\* the destructuring defaults of buildDOGETransaction
DogecoinFeeRate(options) ==
    IF options.feeRate = <<>> THEN 100000 * RateDen ELSE options.feeRate[1]

DogecoinChangeAddress(fromAddress, options) ==
    IF options.changeAddress = <<>> THEN fromAddress ELSE options.changeAddress[1]

DogecoinStrategy(options) ==
    IF options.strategy = <<>> THEN "largest-first" ELSE options.strategy[1]

\* BuildDOGEValidateInputs with the amount checked before the addresses
BuildDOGEValidateInputs_AmountFirst(fromAddress, options) ==
    IF options.amount <= 0 THEN "Amount must be greater than 0"
    ELSE IF options.amount < 100000000 THEN "Amount is below dust limit (1 DOGE)"
    ELSE IF ~DogecoinIsValidAddress(fromAddress) THEN "Invalid sender address"
    ELSE IF ~DogecoinIsValidAddress(options.toAddress) THEN "Invalid recipient address"
    ELSE ""

\* a plausible fault: the dust limit of the Bitcoin builder (546) left in the
\* Dogecoin builder's amount check
BuildDOGEValidateInputs_BitcoinDust(fromAddress, options) ==
    IF ~DogecoinIsValidAddress(fromAddress) THEN "Invalid sender address"
    ELSE IF ~DogecoinIsValidAddress(options.toAddress) THEN "Invalid recipient address"
    ELSE IF options.amount <= 0 THEN "Amount must be greater than 0"
    ELSE IF options.amount < 546 THEN "Amount is below dust limit (1 DOGE)"
    ELSE ""

\* buildDOGETransaction up to its await: the message of the Error thrown by
\* the input validation, "" when it throws none and getUTXOs is called
BuildDOGEValidateInputs(fromAddress, options) ==
    IF ~DogecoinIsValidAddress(fromAddress) THEN "Invalid sender address"
    ELSE IF ~DogecoinIsValidAddress(options.toAddress) THEN "Invalid recipient address"
    ELSE IF options.amount <= 0 THEN "Amount must be greater than 0"
    ELSE IF options.amount < 100000000 THEN "Amount is below dust limit (1 DOGE)"
    ELSE ""

\* a plausible fault: the size of the returned transaction estimated with a
\* change output whether there is one or not
BuildDOGEAfterFetch_AlwaysChangeOutput(fromAddress, options, utxos) ==
    IF Len(utxos) = 0
    THEN [ kind |-> "error", message |-> "No UTXOs found for address" ]
    ELSE LET feeRate == DogecoinFeeRate(options)
             sel == DogecoinSelectOutcome(
                        DogecoinSelectUTXOs(utxos, options.amount, feeRate,
                                            DogecoinStrategy(options)),
                        options.amount)
         IN  IF ~sel.ok
             THEN [ kind |-> "error", message |-> sel.message,
                    need |-> sel.need, have |-> sel.have ]
             ELSE [ kind |-> "tx",
                    tx |-> [ utxos |-> sel.selectedUTXOs,
                             toAddress |-> options.toAddress,
                             amount |-> options.amount,
                             changeAddress |-> DogecoinChangeAddress(fromAddress, options),
                             changeAmount |-> sel.change,
                             fee |-> sel.fee,
                             byteFee |-> feeRate,
                             totalInput |-> sel.totalInput,
                             estimatedSize |-> DogecoinEstimateTransactionSize(
                                                   Len(sel.selectedUTXOs), 2) ] ]

\* buildDOGETransaction after getUTXOs resolved with utxos
BuildDOGEAfterFetch(fromAddress, options, utxos) ==
    IF Len(utxos) = 0
    THEN [ kind |-> "error", message |-> "No UTXOs found for address" ]
    ELSE LET feeRate == DogecoinFeeRate(options)
             sel == DogecoinSelectOutcome(
                        DogecoinSelectUTXOs(utxos, options.amount, feeRate,
                                            DogecoinStrategy(options)),
                        options.amount)
         IN  IF ~sel.ok
             THEN [ kind |-> "error", message |-> sel.message,
                    need |-> sel.need, have |-> sel.have ]
             ELSE LET outputCount == IF sel.change > 0 THEN 2 ELSE 1
                      estimatedSize == DogecoinEstimateTransactionSize(
                                           Len(sel.selectedUTXOs), outputCount)
                  IN  [ kind |-> "tx",
                        tx |-> [ utxos |-> sel.selectedUTXOs,
                                 toAddress |-> options.toAddress,
                                 amount |-> options.amount,
                                 changeAddress |-> DogecoinChangeAddress(fromAddress, options),
                                 changeAmount |-> sel.change,
                                 fee |-> sel.fee,
                                 byteFee |-> feeRate,
                                 totalInput |-> sel.totalInput,
                                 estimatedSize |-> estimatedSize ] ]

\* estimateTransactionCost after getUTXOs resolved with utxos
DogecoinEstimateCostAfterFetch(amount, feeRateArg, utxos) ==
    IF Len(utxos) = 0
    THEN [ kind |-> "error", message |-> "No UTXOs found for address" ]
    ELSE LET feeRate == IF feeRateArg = <<>> THEN 100000 * RateDen ELSE feeRateArg[1]
             sel == DogecoinSelectOutcome(
                        DogecoinSelectUTXOs(utxos, amount, feeRate, "largest-first"), amount)
         IN  IF ~sel.ok
             THEN [ kind |-> "error", message |-> "Failed to estimate cost",
                    cause |-> sel.message, need |-> sel.need, have |-> sel.have ]
             ELSE LET dustLimit == 100000000
                      outputCount ==
                          IF SumValues(sel.selectedUTXOs) - amount - sel.fee > dustLimit
                          THEN 2 ELSE 1
                      estimatedSize == DogecoinEstimateTransactionSize(
                                           Len(sel.selectedUTXOs), outputCount)
                  IN  [ kind |-> "cost", fee |-> sel.fee, total |-> amount + sel.fee,
                        estimatedSize |-> estimatedSize ]

\* DogecoinValidateTransaction without the check of the fee
DogecoinValidateTransaction_NoFeeCheck(tx) ==
    LET dustLimit == 100000000
        errors ==
            PushIf(Len(tx.utxos) = 0, <<"No UTXOs selected">>)
         \o PushIf(~DogecoinIsValidAddress(tx.toAddress), <<"Invalid recipient address">>)
         \o PushIf(~DogecoinIsValidAddress(tx.changeAddress), <<"Invalid change address">>)
         \o PushIf(tx.amount <= 0, <<"Amount must be greater than 0">>)
         \o PushIf(tx.amount < dustLimit, <<"Amount is below dust limit (1 DOGE)">>)
         \o PushIf(tx.changeAmount > 0 /\ tx.changeAmount < dustLimit,
                   <<"Change amount is below dust limit (1 DOGE)">>)
         \o PushIf(tx.totalInput < tx.amount + tx.fee, <<"Insufficient input amount">>)
         \o DuplicateErrors(tx.utxos, {})
    IN  [ valid |-> Len(errors) = 0, errors |-> errors ]

DogecoinValidateTransaction(tx) ==
    LET dustLimit == 100000000
        errors ==
            PushIf(Len(tx.utxos) = 0, <<"No UTXOs selected">>)
         \o PushIf(~DogecoinIsValidAddress(tx.toAddress), <<"Invalid recipient address">>)
         \o PushIf(~DogecoinIsValidAddress(tx.changeAddress), <<"Invalid change address">>)
         \o PushIf(tx.amount <= 0, <<"Amount must be greater than 0">>)
         \o PushIf(tx.amount < dustLimit, <<"Amount is below dust limit (1 DOGE)">>)
         \o PushIf(tx.changeAmount > 0 /\ tx.changeAmount < dustLimit,
                   <<"Change amount is below dust limit (1 DOGE)">>)
         \o PushIf(tx.totalInput < tx.amount + tx.fee, <<"Insufficient input amount">>)
         \o PushIf(tx.fee <= 0, <<"Fee must be greater than 0">>)
         \o DuplicateErrors(tx.utxos, {})
    IN  [ valid |-> Len(errors) = 0, errors |-> errors ]

(***************************************************************************)
(* The calls a client makes, one at a time.  A call of buildBTCTransaction, *)
(* buildDOGETransaction or estimateTransactionCost runs to its await of     *)
(* getUTXOs, is suspended there, and runs to its end when getUTXOs settles. *)
(***************************************************************************)
NoFrame == [ ran |-> FALSE ]
NoResult == [ kind |-> "none" ]
NoReport == [ valid |-> FALSE, errors |-> <<>>, made |-> FALSE ]
NoTx == [ utxos |-> <<>> ]
NoOptions == [ amount |-> 0 ]

\* the callers whose build calls may be in flight at the same time
Callers == {1, 2}

\* a caller with no call in flight
NoCall == [ pc |-> "idle", chain |-> "BTC", fromAddress |-> AddrShort,
            options |-> NoOptions, snapshot |-> <<>>, fetched |-> "none",
            result |-> NoResult ]
NoCalls == [ p \in Callers |-> NoCall ]

ValidateInputs(c, fromAddress, options) ==
    IF c = "BTC" THEN BuildBTCValidateInputs(fromAddress, options)
    ELSE BuildDOGEValidateInputs(fromAddress, options)

AfterFetch(c, o, fromAddress, options, utxos) ==
    CASE c = "BTC" /\ o = "build" -> BuildBTCAfterFetch(fromAddress, options, utxos)
      [] c = "DOGE" /\ o = "build" -> BuildDOGEAfterFetch(fromAddress, options, utxos)
      [] c = "BTC" /\ o = "estimate" ->
            BitcoinEstimateCostAfterFetch(options.amount, options.feeRate, utxos)
      [] c = "DOGE" /\ o = "estimate" ->
            DogecoinEstimateCostAfterFetch(options.amount, options.feeRate, utxos)

\* the arguments selectUTXOs is called with by the call (c, o, options)
SelectFeeRate(c, o, options) ==
    IF c = "BTC" THEN BitcoinFeeRate(options) ELSE DogecoinFeeRate(options)

SelectStrategy(c, o, options) ==
    IF o = "estimate" THEN "largest-first"
    ELSE IF c = "BTC" THEN BitcoinStrategy(options) ELSE DogecoinStrategy(options)

\* the record of the selectUTXOs run of the call: its arguments, its locals at
\* exit, and the array it was passed as it is at exit
SelectFrame(c, o, options, utxos) ==
    IF Len(utxos) = 0 THEN NoFrame
    ELSE LET feeRate == SelectFeeRate(c, o, options)
             strategy == SelectStrategy(c, o, options)
         IN  [ ran |-> TRUE, utxos |-> utxos, targetAmount |-> options.amount,
               feeRate |-> feeRate, strategy |-> strategy,
               locals |-> IF c = "BTC"
                          THEN BitcoinSelectUTXOs(utxos, options.amount, feeRate, strategy)
                          ELSE DogecoinSelectUTXOs(utxos, options.amount, feeRate, strategy),
               utxosAtExit |-> IF c = "BTC"
                               THEN BitcoinUTXOsAtExit(utxos, options.amount, strategy)
                               ELSE DogecoinUTXOsAtExit(utxos, options.amount, strategy) ]

\* the transaction passed to validateTransaction as the function leaves it:
\* the body reads tx and pushes to its own errors array only
BitcoinTransactionAtExit(tx) == tx

DogecoinTransactionAtExit(tx) == tx

TransactionAtExit(c, tx) ==
    IF c = "BTC" THEN BitcoinTransactionAtExit(tx) ELSE DogecoinTransactionAtExit(tx)

ValidateTransaction(c, tx) ==
    IF c = "BTC" THEN BitcoinValidateTransaction(tx) ELSE DogecoinValidateTransaction(tx)

\* transactions a caller may hand to validateTransaction without having built them
ExternalTxs(c) ==
    [ utxos : SeqsUpTo(IF c = "BTC" THEN {Utxo("a", 0, 5000), Utxo("a", 1, 3000)}
                       ELSE {Utxo("d", 0, 300000000), Utxo("d", 1, 169200000)},
                       MaxTxUtxos),
      toAddress : {OwnAddress(c), AddrShort},
      amount : IF c = "BTC" THEN {0, 500, 4000} ELSE {0, 50000000, 100000000},
      changeAddress : {OwnAddress(c), AddrBadChar},
      changeAmount : IF c = "BTC" THEN {0, 100, 860} ELSE {0, 50000000, 177400000},
      fee : IF c = "BTC" THEN {0, 140} ELSE {0, 22600000},
      byteFee : {SelectFeeRate(c, "build", [feeRate |-> <<>>])},
      totalInput : IF c = "BTC" THEN {3000, 5000} ELSE {100000000, 300000000},
      estimatedSize : {IF c = "BTC" THEN 140 ELSE 226} ]

Init ==
    /\ chain = "BTC"
    /\ op = "none"
    /\ pc = "idle"
    /\ argFrom = AddrShort
    /\ argOptions = NoOptions
    /\ providerCalls = 0
    /\ snapshot = <<>>
    /\ frame = NoFrame
    /\ result = NoResult
    /\ vtx = NoTx
    /\ vsrc = "none"
    /\ report = NoReport
    /\ fetched = "none"
    /\ calls = NoCalls

\* buildBTCTransaction(fromAddress, options) / buildDOGETransaction(fromAddress, options)
\* is called and runs to its first throw or to await getUTXOs(fromAddress, apiProvider)
BuildCall ==
    /\ pc = "idle"
    /\ \E c \in Chains :
         \E fromAddress \in {OwnAddress(c), AddrShort, AddrBadChar} :
           \E options \in BuildOptions(c) :
             /\ chain' = c
             /\ op' = "build"
             /\ argFrom' = fromAddress
             /\ argOptions' = options
             /\ LET message == ValidateInputs(c, fromAddress, options)
                IN  IF message # ""
                    THEN /\ pc' = "done"
                         /\ result' = [ kind |-> "error", message |-> message ]
                         /\ providerCalls' = 0
                         /\ fetched' = "none"
                    ELSE /\ pc' = "fetching"
                         /\ result' = NoResult
                         /\ providerCalls' = 1
                         /\ fetched' = "pending"
    /\ UNCHANGED <<snapshot, frame, vtx, vsrc, report, calls>>

\* estimateTransactionCost(fromAddress, amount, feeRate) is called: it awaits
\* getUTXOs at once
EstimateCall ==
    /\ pc = "idle"
    /\ \E c \in Chains :
         \E fromAddress \in {OwnAddress(c), AddrShort} :
           \E options \in EstimateOptions(c) :
             /\ chain' = c
             /\ op' = "estimate"
             /\ argFrom' = fromAddress
             /\ argOptions' = options
    /\ pc' = "fetching"
    /\ result' = NoResult
    /\ providerCalls' = 1
    /\ fetched' = "pending"
    /\ UNCHANGED <<snapshot, frame, vtx, vsrc, report, calls>>

\* the promise of getUTXOs resolves with utxos and the suspended call runs to its end
GetUTXOsResolves ==
    /\ pc = "fetching"
    /\ \E utxos \in Snapshots(chain) :
         /\ frame' = SelectFrame(chain, op, argOptions, utxos)
         /\ snapshot' = IF frame'.ran THEN frame'.utxosAtExit ELSE utxos
         /\ result' = AfterFetch(chain, op, argFrom, argOptions, utxos)
    /\ pc' = "done"
    /\ fetched' = "resolved"
    /\ UNCHANGED <<chain, op, argFrom, argOptions, providerCalls, vtx, vsrc, report, calls>>

\* a plausible fault: a failed fetch is tried again instead of ending the call
GetUTXOsRejects_Retries ==
    /\ pc = "fetching"
    /\ providerCalls' = providerCalls + 1
    /\ UNCHANGED <<chain, op, pc, argFrom, argOptions, snapshot, frame, result,
                   vtx, vsrc, report, fetched, calls>>

\* the promise of getUTXOs rejects (unknown provider key, HTTP or parse error);
\* neither caller catches it, so the call rejects with the same error
GetUTXOsRejects ==
    /\ pc = "fetching"
    /\ result' = [ kind |-> "error", message |-> "UTXO provider error" ]
    /\ pc' = "done"
    /\ fetched' = "rejected"
    /\ UNCHANGED <<chain, op, argFrom, argOptions, providerCalls, snapshot, frame,
                   vtx, vsrc, report, calls>>

\* the caller passes the transaction it was just handed to validateTransaction
ValidateBuilt ==
    /\ pc = "done"
    /\ op = "build"
    /\ result.kind = "tx"
    /\ vsrc = "none"
    /\ vtx' = TransactionAtExit(chain, result.tx)
    /\ vsrc' = "built"
    /\ report' = ValidateTransaction(chain, result.tx) @@ [ made |-> TRUE ]
    /\ UNCHANGED <<chain, op, pc, argFrom, argOptions, providerCalls, snapshot, frame,
                   result, fetched, calls>>

\* validateTransaction(tx) is called on a transaction from elsewhere
ValidateExternal ==
    /\ pc = "idle"
    /\ \E c \in Chains :
         \E tx \in ExternalTxs(c) :
           /\ chain' = c
           /\ vtx' = TransactionAtExit(c, tx)
           /\ report' = ValidateTransaction(c, tx) @@ [ made |-> TRUE ]
    /\ op' = "validate"
    /\ pc' = "done"
    /\ vsrc' = "external"
    /\ UNCHANGED <<argFrom, argOptions, providerCalls, snapshot, frame, result,
                   fetched, calls>>

\* the call has settled and the client goes on to its next call; nothing of
\* the finished call is kept by the builders
Return ==
    /\ pc = "done"
    /\ chain' = "BTC"
    /\ op' = "none"
    /\ pc' = "idle"
    /\ argFrom' = AddrShort
    /\ argOptions' = NoOptions
    /\ providerCalls' = 0
    /\ snapshot' = <<>>
    /\ frame' = NoFrame
    /\ result' = NoResult
    /\ vtx' = NoTx
    /\ vsrc' = "none"
    /\ report' = NoReport
    /\ fetched' = "none"
    /\ UNCHANGED calls

Next ==
    \/ BuildCall
    \/ EstimateCall
    \/ GetUTXOsResolves
    \/ GetUTXOsRejects
    \/ ValidateBuilt
    \/ ValidateExternal
    \/ Return

Spec == Init /\ [][Next]_vars

(***************************************************************************)
(* Several build calls side by side.  JavaScript runs one call at a time   *)
(* up to its await; calls of different callers interleave only where they  *)
(* are suspended at await getUTXOs.  The builders are classes of static    *)
(* methods without fields: everything a call works on is its arguments and *)
(* its locals.                                                             *)
(***************************************************************************)
MaxPipelineUtxos == 2   \* longest UTXO sequence the provider returns to such a call

PipelinePool(c) ==
    IF c = "BTC" THEN {Utxo("a", 0, 5000), Utxo("b", 0, 1000)}
    ELSE {Utxo("d", 0, 300000000), Utxo("e", 1, 100000000)}

PipelineSnapshots(c) == SeqsUpTo(PipelinePool(c), MaxPipelineUtxos)

PipelineOptions(c) ==
    [ toAddress : {OwnAddress(c)},
      amount : IF c = "BTC" THEN {1000, 4000} ELSE {100000000, 200000000},
      feeRate : {<<>>},
      changeAddress : {<<>>},
      strategy : Opt({"smallest-first"}) ]

\* the call of caller p runs from its entry to its first throw or to the await
CallStarted(c, fromAddress, options) ==
    LET message == ValidateInputs(c, fromAddress, options)
    IN  [ pc |-> IF message # "" THEN "done" ELSE "fetching",
          chain |-> c, fromAddress |-> fromAddress, options |-> options,
          snapshot |-> <<>>,
          fetched |-> IF message # "" THEN "none" ELSE "pending",
          result |-> IF message # "" THEN [ kind |-> "error", message |-> message ]
                     ELSE NoResult ]

\* a plausible fault: the arguments live in a static field that a call started
\* later overwrites while this one is suspended
CallSettled_SharedArguments(cs, p, utxos) ==
    LET others == {q \in Callers \ {p} : cs[q].pc = "fetching" /\ cs[q].chain = cs[p].chain}
        args == IF others = {} THEN cs[p] ELSE cs[CHOOSE q \in others : TRUE]
    IN  [ cs EXCEPT ![p] =
            [ pc |-> "done", chain |-> cs[p].chain, fromAddress |-> cs[p].fromAddress,
              options |-> cs[p].options, snapshot |-> utxos, fetched |-> "resolved",
              result |-> AfterFetch(cs[p].chain, "build", args.fromAddress,
                                    args.options, utxos) ] ]

\* a plausible fault: the fetched UTXOs are kept in a static field and a call
\* settling later works on what an earlier one left there
CallSettled_SharedUtxos(cs, p, utxos) ==
    LET others == {q \in Callers \ {p} : cs[q].fetched = "resolved" /\ cs[q].chain = cs[p].chain}
        kept == IF others = {} THEN utxos ELSE cs[CHOOSE q \in others : TRUE].snapshot
    IN  [ cs EXCEPT ![p] =
            [ pc |-> "done", chain |-> cs[p].chain, fromAddress |-> cs[p].fromAddress,
              options |-> cs[p].options, snapshot |-> utxos, fetched |-> "resolved",
              result |-> AfterFetch(cs[p].chain, "build", cs[p].fromAddress,
                                    cs[p].options, kept) ] ]

\* the promise of caller p's getUTXOs resolved with utxos: the call resumes with
\* its own fromAddress, options and utxos and runs to its end
CallSettled(cs, p, utxos) ==
    [ cs EXCEPT ![p] =
        [ pc |-> "done", chain |-> cs[p].chain, fromAddress |-> cs[p].fromAddress,
          options |-> cs[p].options, snapshot |-> utxos, fetched |-> "resolved",
          result |-> AfterFetch(cs[p].chain, "build", cs[p].fromAddress,
                                cs[p].options, utxos) ] ]

seqVars == <<chain, op, pc, argFrom, argOptions, providerCalls, snapshot, frame,
             result, vtx, vsrc, report, fetched>>

PipelineCall ==
    /\ \E p \in Callers :
         /\ calls[p].pc = "idle"
         /\ \E c \in Chains :
              \E fromAddress \in {OwnAddress(c), AddrShort} :
                \E options \in PipelineOptions(c) :
                  calls' = [ calls EXCEPT ![p] = CallStarted(c, fromAddress, options) ]
    /\ UNCHANGED seqVars

PipelineResolves ==
    /\ \E p \in Callers :
         /\ calls[p].pc = "fetching"
         /\ \E utxos \in PipelineSnapshots(calls[p].chain) :
              calls' = CallSettled(calls, p, utxos)
    /\ UNCHANGED seqVars

PipelineRejects ==
    /\ \E p \in Callers :
         /\ calls[p].pc = "fetching"
         /\ calls' = [ calls EXCEPT ![p].pc = "done", ![p].fetched = "rejected",
                          ![p].result = [ kind |-> "error",
                                          message |-> "UTXO provider error" ] ]
    /\ UNCHANGED seqVars

PipelineReturn ==
    /\ \E p \in Callers :
         /\ calls[p].pc = "done"
         /\ calls' = [ calls EXCEPT ![p] = NoCall ]
    /\ UNCHANGED seqVars

NextPipelines ==
    \/ PipelineCall
    \/ PipelineResolves
    \/ PipelineRejects
    \/ PipelineReturn

SpecPipelines == Init /\ [][NextPipelines]_vars

(***************************************************************************)
(* Vocabulary of the properties                                            *)
(***************************************************************************)
\* dust limit of the chain's profile
DustLimit(c) == IF c = "BTC" THEN 546 ELSE 100000000

\* estimateSize(n, m, profile)
ProfileSize(c, n, m) ==
    IF c = "BTC" THEN n * 68 + m * 31 + 10 ELSE n * 148 + m * 34 + 10

\* the fee rate 1 and the default rate of the chain, in 1/RateDen units
RateOne == 1 * RateDen
DefaultRate(c) == IF c = "BTC" THEN RateOne ELSE 100000 * RateDen

IsValidAddress(c, address) ==
    IF c = "BTC" THEN BitcoinIsValidAddress(address) ELSE DogecoinIsValidAddress(address)

\* selectUTXOs ran in the current call / ran and returned / ran and threw
SelectRan == frame.ran
SelectReturned == frame.ran /\ frame.locals.returned
SelectThrew == frame.ran /\ ~frame.locals.returned

\* what selectUTXOs returned or threw in the current call
Selection ==
    IF chain = "BTC" THEN BitcoinSelectOutcome(frame.locals, frame.targetAmount)
    ELSE DogecoinSelectOutcome(frame.locals, frame.targetAmount)

Outpoints(utxos) == { <<utxos[i].txid, utxos[i].vout>> : i \in DOMAIN utxos }
DistinctOutpoints(utxos) == Cardinality(Outpoints(utxos)) = Len(utxos)

Values(utxos) == [ i \in DOMAIN utxos |-> utxos[i].value ]

BuiltTx == op = "build" /\ pc = "done" /\ result.kind = "tx"

(***************************************************************************)
(* C1  Value conservation: whenever selectUTXOs returns, totalInput is the *)
(* sum of the values of the selected UTXOs, totalInput >= targetAmount +   *)
(* fee, and change = totalInput - targetAmount - fee.                      *)
(***************************************************************************)
C1_ValueConservation ==
    SelectReturned =>
        /\ Selection.totalInput = SumValues(Selection.selectedUTXOs)
        /\ Selection.totalInput >= frame.targetAmount + Selection.fee
        /\ Selection.change = Selection.totalInput - frame.targetAmount - Selection.fee

\* a selection of several UTXOs whose dust was folded into the fee
C1_Witness ==
    /\ SelectReturned
    /\ Len(Selection.selectedUTXOs) >= 2
    /\ Selection.change = 0
    /\ Selection.fee > MathCeil(frame.locals.txSize * frame.feeRate, RateDen)

(***************************************************************************)
(* C2  No sub-dust change: a change returned by selectUTXOs, and the       *)
(* changeAmount of a transaction returned by build, is 0 or at least the   *)
(* dust limit of the chain.                                                *)
(***************************************************************************)
C2_NoSubDustChange ==
    /\ SelectReturned =>
          (Selection.change > 0 => Selection.change >= DustLimit(chain))
    /\ BuiltTx =>
          (result.tx.changeAmount > 0 => result.tx.changeAmount >= DustLimit(chain))

\* a Dogecoin transaction with a change output
C2_Witness ==
    /\ BuiltTx
    /\ chain = "DOGE"
    /\ result.tx.changeAmount >= DustLimit("DOGE")

(***************************************************************************)
(* C3  No double-spent input: the UTXOs selectUTXOs returns never contain  *)
(* two entries with the same (txid, vout), whatever the provider returned. *)
(***************************************************************************)
C3_NoDoubleSpentInput ==
    SelectReturned => DistinctOutpoints(Selection.selectedUTXOs)

(***************************************************************************)
(* C4  Bitcoin scenario: UTXO values [5000, 3000, 1000], amount 4000, fee  *)
(* rate 1, largest-first.                                                  *)
(***************************************************************************)
C4_Scenario ==
    /\ chain = "BTC"
    /\ SelectRan
    /\ Values(frame.utxos) = <<5000, 3000, 1000>>
    /\ frame.targetAmount = 4000
    /\ frame.feeRate = RateOne
    /\ frame.strategy = "largest-first"

\* as claimed: the 5000 UTXO alone, fee 109, change 891
C4_ScenarioAsClaimed ==
    C4_Scenario =>
        /\ SelectReturned
        /\ Values(Selection.selectedUTXOs) = <<5000>>
        /\ Selection.fee = 109
        /\ Selection.change = 891

\* C4 as amended: the 5000 UTXO alone, with the fee of a two-output
\* transaction, 140, and change 860
C4_ScenarioAmended ==
    C4_Scenario =>
        /\ SelectReturned
        /\ Values(Selection.selectedUTXOs) = <<5000>>
        /\ Selection.fee = 140
        /\ Selection.change = 860

C4_Witness == C4_Scenario /\ BuiltTx

(***************************************************************************)
(* The failure taxonomy: the kind of failure an Error message stands for   *)
(***************************************************************************)
ErrorKind(message) ==
    CASE message \in {"Invalid sender address", "Invalid recipient address"} ->
            "InvalidAddress"
      [] message \in {"Amount must be greater than 0",
                      "Amount is below dust limit (546 satoshis)",
                      "Amount is below dust limit (1 DOGE)"} -> "InvalidAmount"
      [] message = "No UTXOs found for address" -> "NoUTXOsFound"
      [] message = "Insufficient funds" -> "InsufficientFunds"
      [] message = "UTXO provider error" -> "ProviderError"
      [] OTHER -> "Other"

BuildFailed == op = "build" /\ pc = "done" /\ result.kind = "error"
PreconditionFailure ==
    BuildFailed /\ ErrorKind(result.message) \in {"InvalidAddress", "InvalidAmount"}

BelowDustMessage(c) ==
    IF c = "BTC" THEN "Amount is below dust limit (546 satoshis)"
    ELSE "Amount is below dust limit (1 DOGE)"

(***************************************************************************)
(* C5  A build call with amount < dustLimit fails with InvalidAmount and   *)
(* never invokes getUTXOs; no precondition failure is preceded by a        *)
(* provider call.                                                          *)
(***************************************************************************)
\* as claimed: every such call fails with InvalidAmount
C5_BelowDustIsInvalidAmount ==
    /\ (op = "build" /\ argOptions.amount < DustLimit(chain)) =>
          /\ pc = "done"
          /\ result.kind = "error"
          /\ ErrorKind(result.message) = "InvalidAmount"
          /\ providerCalls = 0
    /\ PreconditionFailure => providerCalls = 0

\* C5 as amended: every such call fails with a precondition failure and
\* without a provider call; the failure is InvalidAmount when both addresses
\* pass the address predicate (and InvalidAddress otherwise)
C5_BelowDustFailsBeforeFetch ==
    /\ (op = "build" /\ argOptions.amount < DustLimit(chain)) =>
          /\ pc = "done"
          /\ PreconditionFailure
          /\ providerCalls = 0
          /\ (IsValidAddress(chain, argFrom) /\ IsValidAddress(chain, argOptions.toAddress))
                <=> ErrorKind(result.message) = "InvalidAmount"
    /\ PreconditionFailure => providerCalls = 0

\* a call with valid addresses and a positive amount below the dust limit
C5_Witness ==
    /\ BuildFailed
    /\ argOptions.amount > 0
    /\ argOptions.amount < DustLimit(chain)
    /\ result.message = BelowDustMessage(chain)
    /\ providerCalls = 0

(***************************************************************************)
(* C6  build checks fromAddress, toAddress, amount > 0, amount >= dust in  *)
(* this order and reports the first violated check.                        *)
(***************************************************************************)
\* the message of the first violated precondition in the order of the claim,
\* "" when all four hold
FirstViolatedPrecondition(c, fromAddress, options) ==
    LET holds == << IsValidAddress(c, fromAddress),
                    IsValidAddress(c, options.toAddress),
                    options.amount > 0,
                    options.amount >= DustLimit(c) >>
        messages == << "Invalid sender address", "Invalid recipient address",
                       "Amount must be greater than 0", BelowDustMessage(c) >>
        violated == { i \in 1..4 : ~holds[i] }
    IN  IF violated = {} THEN ""
        ELSE messages[CHOOSE i \in violated : \A j \in violated : i <= j]

C6_FirstViolatedCheckReported ==
    (op = "build" /\ pc # "idle") =>
        LET first == FirstViolatedPrecondition(chain, argFrom, argOptions)
        IN  IF first = ""
            THEN ~PreconditionFailure
            ELSE PreconditionFailure /\ result.message = first

\* an invalid sender address together with amount <= 0 and an invalid recipient
C6_Witness ==
    /\ BuildFailed
    /\ ~IsValidAddress(chain, argFrom)
    /\ ~IsValidAddress(chain, argOptions.toAddress)
    /\ argOptions.amount <= 0
    /\ result.message = "Invalid sender address"

(***************************************************************************)
(* C7  InsufficientFunds is raised only after every UTXO of the snapshot   *)
(* was added; have is the sum of all values, needed is targetAmount plus   *)
(* the fee estimate of the last step, and needed > have.                   *)
(***************************************************************************)
\* s and t hold the same elements the same number of times
SameBag(s, t) ==
    /\ Len(s) = Len(t)
    /\ \A x \in {s[i] : i \in DOMAIN s} :
          Cardinality({ i \in DOMAIN s : s[i] = x }) = Cardinality({ i \in DOMAIN t : t[i] = x })

C7_InsufficientFundsAfterAll ==
    SelectThrew =>
        LET n == Len(frame.utxos)
        IN  /\ SameBag(frame.locals.selectedUTXOs, frame.utxos)
            /\ Selection.have = SumValues(frame.utxos)
            /\ \E m \in {1, 2} :
                  Selection.need = frame.targetAmount
                      + MathCeil(ProfileSize(chain, n, m) * frame.feeRate, RateDen)
            /\ Selection.need > Selection.have
            /\ result.kind = "error"
            /\ result.need = Selection.need
            /\ result.have = Selection.have

\* UTXOs [100, 200], amount 1000: have = 300, needed = 1000 + 177
C7_Witness ==
    /\ BuildFailed
    /\ chain = "BTC"
    /\ Values(snapshot) = <<100, 200>>
    /\ argOptions.amount = 1000
    /\ argOptions.feeRate = <<>>
    /\ result.message = "Insufficient funds"
    /\ result.have = 300
    /\ result.need = 1177

(***************************************************************************)
(* C8  Dust folding: when selectUTXOs returns at a step whose fee estimate *)
(* leaves c = totalInput - targetAmount - estimate with 0 < c < dustLimit, *)
(* it returns change = 0 and fee = estimate + c; otherwise fee = estimate  *)
(* and change = c.                                                         *)
(***************************************************************************)
\* the fee estimate of the step at which selectUTXOs returned
StopEstimate == MathCeil(frame.locals.txSize * frame.feeRate, RateDen)
StopChange == frame.locals.totalInput - frame.targetAmount - StopEstimate

C8_DustFolding ==
    SelectReturned =>
        /\ frame.locals.txSize =
              ProfileSize(chain, Len(Selection.selectedUTXOs), frame.locals.outputCount)
        /\ StopChange >= 0
        /\ IF StopChange > 0 /\ StopChange < DustLimit(chain)
           THEN /\ Selection.change = 0
                /\ Selection.fee = StopEstimate + StopChange
                /\ Selection.fee = Selection.totalInput - frame.targetAmount
           ELSE /\ Selection.change = StopChange
                /\ Selection.fee = StopEstimate

\* Dogecoin: a would-be change of 50000000 koinu is folded into the fee
C8_Witness ==
    /\ SelectReturned
    /\ chain = "DOGE"
    /\ StopChange = 50000000
    /\ Selection.change = 0
    /\ Selection.fee = StopEstimate + 50000000

(***************************************************************************)
(* The checks of the Validator, in the order of the claim                  *)
(***************************************************************************)
\* which of the eight scalar checks tx violates
CheckViolated(c, tx) ==
    << Len(tx.utxos) = 0,
       ~IsValidAddress(c, tx.toAddress),
       ~IsValidAddress(c, tx.changeAddress),
       tx.amount <= 0,
       tx.amount < DustLimit(c),
       tx.changeAmount > 0 /\ tx.changeAmount < DustLimit(c),
       tx.totalInput < tx.amount + tx.fee,
       tx.fee <= 0 >>

CheckError(c) ==
    << <<"No UTXOs selected">>,
       <<"Invalid recipient address">>,
       <<"Invalid change address">>,
       <<"Amount must be greater than 0">>,
       << BelowDustMessage(c) >>,
       << IF c = "BTC" THEN "Change amount is below dust limit (546 satoshis)"
          ELSE "Change amount is below dust limit (1 DOGE)" >>,
       <<"Insufficient input amount">>,
       <<"Fee must be greater than 0">> >>

RECURSIVE ErrorsFrom(_, _, _)
\* the errors of the violated checks i, i+1, ..., in this order
ErrorsFrom(violated, errors, i) ==
    IF i > Len(violated) THEN <<>>
    ELSE (IF violated[i] THEN <<errors[i]>> ELSE <<>>) \o ErrorsFrom(violated, errors, i + 1)

IsDuplicateError(e) == e[1] = "Duplicate UTXO"

Validated == report.made

(***************************************************************************)
(* C9  Validator aggregation: validateTransaction evaluates every check    *)
(* and returns one error for each violated check, in the order of the      *)
(* checks, the duplicate errors last; valid = TRUE exactly when there is   *)
(* no error.                                                               *)
(***************************************************************************)
C9_ValidatorAggregation ==
    Validated =>
        LET scalar == ErrorsFrom(CheckViolated(chain, vtx), CheckError(chain), 1)
            n == Len(scalar)
            rest == SubSeq(report.errors, n + 1, Len(report.errors))
        IN  /\ Len(report.errors) >= n
            /\ SubSeq(report.errors, 1, n) = scalar
            /\ \A i \in DOMAIN rest : IsDuplicateError(rest[i])
            /\ (rest = <<>>) <=> DistinctOutpoints(vtx.utxos)
            /\ report.valid <=> (report.errors = <<>>)

\* an invalid toAddress together with fee = 0: both errors in one report
C9_Witness ==
    /\ Validated
    /\ ~IsValidAddress(chain, vtx.toAddress)
    /\ vtx.fee = 0
    /\ \E i, j \in DOMAIN report.errors :
          /\ i < j
          /\ report.errors[i] = <<"Invalid recipient address">>
          /\ report.errors[j] = <<"Fee must be greater than 0">>
    /\ ~report.valid

(***************************************************************************)
(* C10  The Validator re-verifies the invariants of an unsigned            *)
(* transaction: valid = TRUE only for transactions that satisfy them.      *)
(***************************************************************************)
\* the invariants validateTransaction has a check for
CheckedInvariants(c, tx) ==
    /\ \A i \in DOMAIN CheckViolated(c, tx) : ~CheckViolated(c, tx)[i]
    /\ DistinctOutpoints(tx.utxos)

\* the accounting invariants of the data model
AccountingInvariants(tx) ==
    /\ tx.totalInput = SumValues(tx.utxos)
    /\ tx.changeAmount = tx.totalInput - tx.amount - tx.fee

\* as claimed: a valid report implies every invariant, the accounting ones included
C10_ValidImpliesAllInvariants ==
    (Validated /\ report.valid) =>
        /\ CheckedInvariants(chain, vtx)
        /\ AccountingInvariants(vtx)

\* C10 as amended: a valid report implies the invariants the Validator has a
\* check for; totalInput = sum of the values and changeAmount = totalInput -
\* amount - fee hold of the transactions build constructed (validated or not)
\* and are not verified for an externally supplied one
C10_ValidImpliesCheckedInvariants ==
    /\ (Validated /\ report.valid) => CheckedInvariants(chain, vtx)
    /\ (Validated /\ vsrc = "built") => AccountingInvariants(vtx)
    /\ BuiltTx => AccountingInvariants(result.tx)

\* an externally supplied transaction that satisfies every invariant is reported valid
C10_Witness ==
    /\ Validated
    /\ report.valid
    /\ vsrc = "external"
    /\ AccountingInvariants(vtx)

(***************************************************************************)
(* C11  Determinism: two build calls with the same fromAddress, the same   *)
(* options and the same UTXO snapshot in the same order return the same    *)
(* transaction or fail with the same failure, whether the one ran before,  *)
(* after or during the other.                                              *)
(***************************************************************************)
\* the call has ended otherwise than by a failure of the provider
EndedOnSnapshot(call) == call.pc = "done" /\ call.fetched # "rejected"

SameInputs(c1, c2) ==
    /\ c1.chain = c2.chain
    /\ c1.fromAddress = c2.fromAddress
    /\ c1.options = c2.options
    /\ c1.snapshot = c2.snapshot

RunAlone(call) ==
    IF ValidateInputs(call.chain, call.fromAddress, call.options) # ""
    THEN [ kind |-> "error",
           message |-> ValidateInputs(call.chain, call.fromAddress, call.options) ]
    ELSE IF call.fetched = "rejected"
         THEN [ kind |-> "error", message |-> "UTXO provider error" ]
         ELSE AfterFetch(call.chain, "build", call.fromAddress, call.options,
                         call.snapshot)

EachAsAlone ==
    \A p \in Callers : calls[p].pc = "done" => calls[p].result = RunAlone(calls[p])

OneCallPerStep ==
    \A p, q \in Callers :
        (p # q /\ calls'[p] # calls[p]) => calls'[q] = calls[q]

ResolvedEmpty ==
    /\ op \in {"build", "estimate"}
    /\ pc = "done"
    /\ fetched = "resolved"
    /\ snapshot = <<>>

C12_EmptySnapshotIsNoUTXOsFound ==
    ResolvedEmpty =>
        /\ result.kind = "error"
        /\ result.message = "No UTXOs found for address"
        /\ ErrorKind(result.message) = "NoUTXOsFound"
        /\ ~SelectRan

\* estimateTransactionCost on an address without UTXOs
C12_Witness ==
    /\ ResolvedEmpty
    /\ op = "estimate"
    /\ result.kind = "error"
    /\ ErrorKind(result.message) = "NoUTXOsFound"

(***************************************************************************)
(* C13  Option defaults of build: an omitted feeRate is the default of the *)
(* chain (1 for Bitcoin, 100000 for Dogecoin), an omitted strategy is      *)
(* largest-first, an omitted changeAddress is fromAddress.  The returned   *)
(* transaction has the fee rate used as byteFee, the supplied or defaulted *)
(* change address, and toAddress and amount as the caller gave them.       *)
(***************************************************************************)
\* the value of an option: the one supplied, or the default when it is omitted
Supplied(option, default) == IF option = <<>> THEN default ELSE option[1]

C13_OptionDefaults ==
    /\ (op = "build" /\ SelectRan) =>
          /\ frame.feeRate = Supplied(argOptions.feeRate, DefaultRate(chain))
          /\ frame.strategy = Supplied(argOptions.strategy, "largest-first")
          /\ frame.targetAmount = argOptions.amount
    /\ BuiltTx =>
          /\ result.tx.byteFee = Supplied(argOptions.feeRate, DefaultRate(chain))
          /\ result.tx.byteFee = frame.feeRate
          /\ result.tx.changeAddress = Supplied(argOptions.changeAddress, argFrom)
          /\ result.tx.toAddress = argOptions.toAddress
          /\ result.tx.amount = argOptions.amount

\* a Dogecoin transaction built with all three options omitted
C13_Witness ==
    /\ BuiltTx
    /\ chain = "DOGE"
    /\ argOptions.feeRate = <<>>
    /\ argOptions.strategy = <<>>
    /\ argOptions.changeAddress = <<>>
    /\ result.tx.byteFee = 100000 * RateDen
    /\ result.tx.changeAddress = argFrom
    /\ result.tx.changeAmount > 0

(***************************************************************************)
(* C14  The estimatedSize of a transaction returned by build is            *)
(* estimateSize(n, k) for the n selected UTXOs and k = 2 when changeAmount *)
(* > 0, k = 1 otherwise: it follows the final number of outputs, not the   *)
(* number projected inside the selection loop.                             *)
(***************************************************************************)
C14_EstimatedSizeOfFinalOutputs ==
    BuiltTx =>
        result.tx.estimatedSize =
            ProfileSize(chain, Len(result.tx.utxos),
                        IF result.tx.changeAmount > 0 THEN 2 ELSE 1)

\* the loop projected two outputs, the dust change was folded into the fee, and
\* the transaction has the size of one output
C14_Witness ==
    /\ BuiltTx
    /\ frame.locals.outputCount = 2
    /\ result.tx.changeAmount = 0
    /\ result.tx.estimatedSize = ProfileSize(chain, Len(result.tx.utxos), 1)
    /\ result.tx.estimatedSize < frame.locals.txSize

(***************************************************************************)
(* C15  A build call invokes getUTXOs at most once, and exactly once when  *)
(* all preconditions pass; the invocation comes after the precondition     *)
(* checks and before the coin selection.  A failure of the provider is not *)
(* retried: it ends the call as a failure, with no selection run and no    *)
(* transaction produced.                                                   *)
(***************************************************************************)
C15_ProviderInvokedOnce ==
    op = "build" =>
        /\ providerCalls <= 1
        /\ providerCalls = 1 <=> FirstViolatedPrecondition(chain, argFrom, argOptions) = ""
        /\ pc = "fetching" => (fetched = "pending" /\ ~SelectRan /\ result.kind = "none")
        /\ SelectRan => (providerCalls = 1 /\ fetched = "resolved")
        /\ result.kind = "tx" => (providerCalls = 1 /\ fetched = "resolved")
        /\ fetched = "rejected" =>
              /\ pc = "done"
              /\ providerCalls = 1
              /\ ~SelectRan
              /\ result.kind = "error"
              /\ ErrorKind(result.message) = "ProviderError"

\* a build call whose preconditions passed and whose fetch failed
C15_Witness ==
    /\ op = "build"
    /\ pc = "done"
    /\ fetched = "rejected"
    /\ providerCalls = 1
    /\ FirstViolatedPrecondition(chain, argFrom, argOptions) = ""
    /\ result.kind = "error"

(***************************************************************************)
(* C17  An invalid change address is rejected: build never returns a       *)
(* transaction whose changeAddress fails the address predicate of the      *)
(* chain, whether it was defaulted to fromAddress or supplied in           *)
(* options.changeAddress.                                                  *)
(***************************************************************************)
C17_ChangeAddressValid ==
    BuiltTx => IsValidAddress(chain, result.tx.changeAddress)

(***************************************************************************)
(* Vocabulary of the selection loop                                        *)
(***************************************************************************)
\* the key a strategy orders the UTXOs by, smallest first
SortKey(strategy, utxo, targetAmount) ==
    CASE strategy = "largest-first" -> -utxo.value
      [] strategy = "smallest-first" -> utxo.value
      [] strategy = "optimal" -> MathAbs(utxo.value - targetAmount)

\* how often u occurs in s
Count(u, s) == Cardinality({ i \in DOMAIN s : s[i] = u })

\* totalInput after the first k UTXOs of sel were added
TotalAtStep(sel, k) == SumValues(SubSeq(sel, 1, k))

RECURSIVE FeeAtStep(_, _, _, _, _)
RECURSIVE OutputsAtStep(_, _, _, _, _)
\* the projected output count of step k: 2 exactly when totalInput exceeds
\* targetAmount + the estimate held before the step + the dust limit
OutputsAtStep(c, sel, targetAmount, feeRate, k) ==
    IF TotalAtStep(sel, k) >
          targetAmount + FeeAtStep(c, sel, targetAmount, feeRate, k - 1) + DustLimit(c)
    THEN 2 ELSE 1

\* the fee estimate held after step k: 0 before the first step
FeeAtStep(c, sel, targetAmount, feeRate, k) ==
    IF k = 0 THEN 0
    ELSE MathCeil(ProfileSize(c, k, OutputsAtStep(c, sel, targetAmount, feeRate, k))
                      * feeRate, RateDen)

\* the test of step k: totalInput >= targetAmount + fee
CoversAtStep(c, sel, targetAmount, feeRate, k) ==
    TotalAtStep(sel, k) >= targetAmount + FeeAtStep(c, sel, targetAmount, feeRate, k)

(***************************************************************************)
(* C18  selectUTXOs considers the UTXOs in the order of the strategy, and  *)
(* what it selects is a prefix of that order: the shortest prefix at whose *)
(* step totalInput >= targetAmount + fee held.  No UTXO is skipped and the *)
(* test failed at every earlier step.                                      *)
(***************************************************************************)
C18_GreedyPrefix ==
    SelectRan =>
        LET sel == frame.locals.selectedUTXOs
            n == Len(sel)
            key(u) == SortKey(frame.strategy, u, frame.targetAmount)
            covers(k) == CoversAtStep(chain, sel, frame.targetAmount, frame.feeRate, k)
        IN  /\ n >= 1
            /\ \A i, j \in 1..n : i < j => key(sel[i]) <= key(sel[j])
            /\ \A i \in DOMAIN frame.utxos :
                  LET u == frame.utxos[i]
                  IN  /\ Count(u, sel) <= Count(u, frame.utxos)
                      /\ Count(u, sel) < Count(u, frame.utxos) => key(sel[n]) <= key(u)
            /\ \A i \in 1..n : Count(sel[i], frame.utxos) >= 1
            /\ \A k \in 1..(n - 1) : ~covers(k)
            /\ IF frame.locals.returned THEN covers(n)
               ELSE ~covers(n) /\ n = Len(frame.utxos)

\* the optimal strategy took two of three UTXOs, nearest to the amount first,
\* and left the farthest one
C18_Witness ==
    /\ SelectReturned
    /\ frame.strategy = "optimal"
    /\ Len(frame.utxos) = 3
    /\ Len(frame.locals.selectedUTXOs) = 2
    /\ MathAbs(frame.locals.selectedUTXOs[1].value - frame.targetAmount)
          < MathAbs(frame.locals.selectedUTXOs[2].value - frame.targetAmount)
    /\ frame.locals.selectedUTXOs[1].value > frame.locals.selectedUTXOs[2].value

(***************************************************************************)
(* C19  Stable ordering: UTXOs with the same sort key are considered in    *)
(* the order the provider returned them, so of tied UTXOs the one earlier  *)
(* in the provider's sequence is selected first.                           *)
(***************************************************************************)
\* the place of u in the provider's sequence
ProviderIndex(u) == CHOOSE i \in DOMAIN frame.utxos : frame.utxos[i] = u

C19_StableAmongTies ==
    (SelectRan /\ DistinctOutpoints(frame.utxos)) =>
        LET sel == frame.locals.selectedUTXOs
            key(u) == SortKey(frame.strategy, u, frame.targetAmount)
        IN  /\ \A i, j \in DOMAIN sel :
                  (i < j /\ key(sel[i]) = key(sel[j]))
                  => ProviderIndex(sel[i]) < ProviderIndex(sel[j])
            /\ \A i \in DOMAIN sel : \A m \in DOMAIN frame.utxos :
                  (Count(frame.utxos[m], sel) = 0 /\ key(frame.utxos[m]) = key(sel[i]))
                  => ProviderIndex(sel[i]) < m

\* two Dogecoin UTXOs of the same value, the provider returned f:0 before e:1:
\* smallest-first selected f:0 and then e:1
C19_Witness ==
    /\ SelectReturned
    /\ chain = "DOGE"
    /\ frame.strategy = "smallest-first"
    /\ frame.utxos = << Utxo("d", 0, 300000000), Utxo("f", 0, 100000000),
                        Utxo("e", 1, 100000000) >>
    /\ frame.locals.selectedUTXOs = << Utxo("f", 0, 100000000), Utxo("e", 1, 100000000) >>

(***************************************************************************)
(* C20  After each UTXO is added the projected outputCount is 2 exactly    *)
(* when totalInput > targetAmount + the fee estimate held before this step *)
(* + dustLimit (the estimate is 0 at the first step and the fee of the     *)
(* step before afterwards), and 1 otherwise; the fee is then recomputed as *)
(* ceil(estimateSize(number selected, outputCount) * feeRate).             *)
(***************************************************************************)
C20_FeeFeedbackStep ==
    SelectRan =>
        LET sel == frame.locals.selectedUTXOs
            n == Len(sel)
            outputs == OutputsAtStep(chain, sel, frame.targetAmount, frame.feeRate, n)
            fee == FeeAtStep(chain, sel, frame.targetAmount, frame.feeRate, n)
        IN  IF frame.locals.returned
            THEN /\ frame.locals.outputCount = outputs
                 /\ frame.locals.txSize = ProfileSize(chain, n, outputs)
                 /\ StopEstimate = fee
                 /\ Selection.fee = fee + (StopChange - Selection.change)
            ELSE frame.locals.estimatedFee = fee

\* the second step projects two outputs against the fee of the first step,
\* where the fee of the second step itself would have given one
C20_Witness ==
    /\ SelectReturned
    /\ Len(frame.locals.selectedUTXOs) = 2
    /\ frame.locals.outputCount = 2
    /\ frame.locals.totalInput <= frame.targetAmount + StopEstimate + DustLimit(chain)
    /\ FeeAtStep(chain, frame.locals.selectedUTXOs, frame.targetAmount, frame.feeRate, 1) > 0

(***************************************************************************)
(* C21  Size estimate: estimateTransactionSize(n, m) is n * inputWeight +  *)
(* m * outputWeight + overhead, with (68, 31, 10) in every Bitcoin build   *)
(* and (148, 34, 10) in every Dogecoin build, and it is strictly           *)
(* increasing in the output count: the size for one output is below the    *)
(* size for two, for every n >= 0.                                         *)
(***************************************************************************)
\* estimateTransactionSize as the builder of chain c calls it
EstimateTransactionSize(c, inputCount, outputCount) ==
    IF c = "BTC" THEN BitcoinEstimateTransactionSize(inputCount, outputCount, TRUE)
    ELSE DogecoinEstimateTransactionSize(inputCount, outputCount)

InputWeight(c) == IF c = "BTC" THEN 68 ELSE 148
OutputWeight(c) == IF c = "BTC" THEN 31 ELSE 34
Overhead(c) == 10

C21_SizeEstimate ==
    /\ SelectReturned =>
          /\ frame.locals.outputCount \in {1, 2}
          /\ frame.locals.txSize =
                Len(frame.locals.selectedUTXOs) * InputWeight(chain)
                  + frame.locals.outputCount * OutputWeight(chain) + Overhead(chain)
    /\ SelectRan =>
          \A n \in 0..Len(frame.utxos) :
              /\ \A m \in {1, 2} :
                    EstimateTransactionSize(chain, n, m) =
                        n * InputWeight(chain) + m * OutputWeight(chain) + Overhead(chain)
              /\ EstimateTransactionSize(chain, n, 1) < EstimateTransactionSize(chain, n, 2)
    /\ BuiltTx =>
          result.tx.estimatedSize =
              EstimateTransactionSize(chain, Len(result.tx.utxos),
                                      IF result.tx.changeAmount > 0 THEN 2 ELSE 1)

\* a Dogecoin selection of two inputs with two outputs: 2 * 148 + 2 * 34 + 10
C21_Witness ==
    /\ SelectReturned
    /\ chain = "DOGE"
    /\ Len(frame.locals.selectedUTXOs) = 2
    /\ frame.locals.outputCount = 2
    /\ frame.locals.txSize = 374

(***************************************************************************)
(* The single engine of the specification, parameterized by a ChainProfile *)
(* p and by the chain's address predicate (the set valid of the addresses  *)
(* that pass it): FeeEstimator, CoinSelector, TransactionAssembler and     *)
(* Validator as the specification describes them.                          *)
(***************************************************************************)
ChainProfile(c) ==
    IF c = "BTC"
    THEN [ dustLimit |-> 546, inputWeight |-> 68, outputWeight |-> 31,
           overheadBytes |-> 10, defaultFeeRate |-> 1 * RateDen ]
    ELSE [ dustLimit |-> 100000000, inputWeight |-> 148, outputWeight |-> 34,
           overheadBytes |-> 10, defaultFeeRate |-> 100000 * RateDen ]

ValidAddresses(c) == { a \in Addresses : IsValidAddress(c, a) }

EngineSize(p, inputCount, outputCount) ==
    inputCount * p.inputWeight + outputCount * p.outputWeight + p.overheadBytes

EngineFee(size, rate) == MathCeil(size * rate, RateDen)

EngineOrder(utxos, targetAmount, strategy) ==
    SortByKey(utxos, [ i \in DOMAIN utxos |-> SortKey(strategy, utxos[i], targetAmount) ])

RECURSIVE EngineSelectFrom(_, _, _, _, _, _, _)
\* steps 1 to 5 of the CoinSelector from the i-th ordered UTXO on
EngineSelectFrom(p, ordered, i, totalInput, currentFeeEstimate, targetAmount, feeRate) ==
    IF i > Len(ordered)
    THEN [ ok |-> FALSE, failure |-> "InsufficientFunds",
           needed |-> targetAmount + currentFeeEstimate, have |-> totalInput ]
    ELSE LET total == totalInput + ordered[i].value
             outputCount ==
                 IF total > targetAmount + currentFeeEstimate + p.dustLimit THEN 2 ELSE 1
             fee == EngineFee(EngineSize(p, i, outputCount), feeRate)
             change == total - targetAmount - fee
         IN  IF total >= targetAmount + fee
             THEN IF 0 < change /\ change < p.dustLimit
                  THEN [ ok |-> TRUE, selected |-> SubSeq(ordered, 1, i),
                         totalInput |-> total, fee |-> fee + change, change |-> 0 ]
                  ELSE [ ok |-> TRUE, selected |-> SubSeq(ordered, 1, i),
                         totalInput |-> total, fee |-> fee, change |-> change ]
             ELSE EngineSelectFrom(p, ordered, i + 1, total, fee, targetAmount, feeRate)

EngineSelect(p, utxos, targetAmount, feeRate, strategy) ==
    EngineSelectFrom(p, EngineOrder(utxos, targetAmount, strategy), 1, 0, 0,
                     targetAmount, feeRate)

\* the TransactionAssembler; fetch is "none" before the provider call,
\* "rejected" when it failed and "resolved" when it returned utxos
EngineBuild(p, valid, fromAddress, options, fetch, utxos) ==
    IF fromAddress \notin valid \/ options.toAddress \notin valid
    THEN [ kind |-> "error", failure |-> "InvalidAddress" ]
    ELSE IF options.amount <= 0 \/ options.amount < p.dustLimit
    THEN [ kind |-> "error", failure |-> "InvalidAmount" ]
    ELSE IF fetch = "rejected"
    THEN [ kind |-> "error", failure |-> "ProviderError" ]
    ELSE IF Len(utxos) = 0
    THEN [ kind |-> "error", failure |-> "NoUTXOsFound" ]
    ELSE LET feeRate == Supplied(options.feeRate, p.defaultFeeRate)
             sel == EngineSelect(p, utxos, options.amount, feeRate,
                                 Supplied(options.strategy, "largest-first"))
         IN  IF ~sel.ok
             THEN [ kind |-> "error", failure |-> sel.failure,
                    needed |-> sel.needed, have |-> sel.have ]
             ELSE [ kind |-> "tx",
                    tx |-> [ utxos |-> sel.selected,
                             toAddress |-> options.toAddress,
                             amount |-> options.amount,
                             changeAddress |-> Supplied(options.changeAddress, fromAddress),
                             changeAmount |-> sel.change,
                             fee |-> sel.fee,
                             byteFee |-> feeRate,
                             totalInput |-> sel.totalInput,
                             estimatedSize |->
                                 EngineSize(p, Len(sel.selected),
                                            IF sel.change > 0 THEN 2 ELSE 1) ] ]

RECURSIVE EngineDuplicates(_, _)
\* one error for each entry from the i-th on whose (txid, vout) an earlier
\* entry has
EngineDuplicates(utxos, i) ==
    IF i > Len(utxos) THEN <<>>
    ELSE (IF \E j \in 1..(i - 1) :
                utxos[j].txid = utxos[i].txid /\ utxos[j].vout = utxos[i].vout
          THEN << <<"DuplicateUtxo", <<utxos[i].txid, utxos[i].vout>> >> >>
          ELSE <<>>)
         \o EngineDuplicates(utxos, i + 1)

\* the Validator: every check is evaluated
EngineValidate(p, valid, tx) ==
    LET errors ==
            PushIf(Len(tx.utxos) = 0, <<"NoUtxos">>)
         \o PushIf(tx.toAddress \notin valid, <<"ToAddress">>)
         \o PushIf(tx.changeAddress \notin valid, <<"ChangeAddress">>)
         \o PushIf(~(tx.amount > 0), <<"AmountNotPositive">>)
         \o PushIf(~(tx.amount >= p.dustLimit), <<"AmountBelowDust">>)
         \o PushIf(tx.changeAmount > 0 /\ ~(tx.changeAmount >= p.dustLimit),
                   <<"ChangeBelowDust">>)
         \o PushIf(~(tx.totalInput >= tx.amount + tx.fee), <<"InputsBelowAmountPlusFee">>)
         \o PushIf(~(tx.fee > 0), <<"FeeNotPositive">>)
         \o EngineDuplicates(tx.utxos, 1)
    IN  [ valid |-> errors = <<>>, errors |-> errors ]

(***************************************************************************)
(* C22  The Bitcoin and the Dogecoin builder are two instances of one      *)
(* engine: the engine instantiated with (546, 68, 31, 10, 1) gives, for    *)
(* every input, the result or failure of the Bitcoin builder, and          *)
(* instantiated with (100000000, 148, 34, 10, 100000) that of the Dogecoin *)
(* builder, in selection, assembly and validation.                         *)
(***************************************************************************)
\* the result of a builder call in the terms of the engine: the transaction as
\* it is, a failure by its kind
EngineView(r) ==
    IF r.kind # "error" THEN r
    ELSE IF ErrorKind(r.message) = "InsufficientFunds"
    THEN [ kind |-> "error", failure |-> "InsufficientFunds",
           needed |-> r.need, have |-> r.have ]
    ELSE [ kind |-> "error", failure |-> ErrorKind(r.message) ]

\* an error of validateTransaction in the terms of the engine
EngineCheck(e) ==
    CASE e[1] = "No UTXOs selected" -> <<"NoUtxos">>
      [] e[1] = "Invalid recipient address" -> <<"ToAddress">>
      [] e[1] = "Invalid change address" -> <<"ChangeAddress">>
      [] e[1] = "Amount must be greater than 0" -> <<"AmountNotPositive">>
      [] e[1] \in {"Amount is below dust limit (546 satoshis)",
                   "Amount is below dust limit (1 DOGE)"} -> <<"AmountBelowDust">>
      [] e[1] \in {"Change amount is below dust limit (546 satoshis)",
                   "Change amount is below dust limit (1 DOGE)"} -> <<"ChangeBelowDust">>
      [] e[1] = "Insufficient input amount" -> <<"InputsBelowAmountPlusFee">>
      [] e[1] = "Fee must be greater than 0" -> <<"FeeNotPositive">>
      [] e[1] = "Duplicate UTXO" -> <<"DuplicateUtxo", e[2]>>
      [] OTHER -> <<"Other">>

C22_OneEngine ==
    LET p == ChainProfile(chain)
        valid == ValidAddresses(chain)
    IN  /\ (op = "build" /\ pc = "done") =>
              EngineView(result) =
                  EngineBuild(p, valid, argFrom, argOptions, fetched, snapshot)
        /\ SelectRan =>
              LET sel == EngineSelect(p, frame.utxos, frame.targetAmount,
                                      frame.feeRate, frame.strategy)
              IN  IF Selection.ok
                  THEN sel = [ ok |-> TRUE, selected |-> Selection.selectedUTXOs,
                               totalInput |-> Selection.totalInput,
                               fee |-> Selection.fee, change |-> Selection.change ]
                  ELSE sel = [ ok |-> FALSE, failure |-> "InsufficientFunds",
                               needed |-> Selection.need, have |-> Selection.have ]
        /\ report.made =>
              LET checked == EngineValidate(p, valid, vtx)
              IN  /\ report.valid = checked.valid
                  /\ [ i \in DOMAIN report.errors |-> EngineCheck(report.errors[i]) ]
                        = checked.errors

\* a Dogecoin transaction whose folded change lies between the two dust limits
\* has been built and validated
C22_Witness ==
    /\ chain = "DOGE"
    /\ BuiltTx
    /\ report.made
    /\ vsrc = "built"
    /\ result.tx.changeAmount = 0
    /\ StopChange > 546
    /\ StopChange < 100000000
    /\ result = EngineBuild(ChainProfile("DOGE"), ValidAddresses("DOGE"), argFrom,
                            argOptions, fetched, snapshot)

(***************************************************************************)
(* C23  Validator duplicate detection: validateTransaction reports valid = *)
(* false whenever two entries of tx.utxos have the same (txid, vout); it   *)
(* emits one 'Duplicate UTXO' error for each occurrence after the first    *)
(* (k occurrences give k - 1 errors) and none when all are distinct.       *)
(***************************************************************************)
DuplicateErrorsReported == SelectSeq(report.errors, IsDuplicateError)

\* how often the outpoint id occurs among utxos
Occurrences(id, utxos) ==
    Cardinality({ i \in DOMAIN utxos : <<utxos[i].txid, utxos[i].vout>> = id })

C23_DuplicateDetection ==
    report.made =>
        /\ \A id \in Outpoints(vtx.utxos) :
              Cardinality({ i \in DOMAIN DuplicateErrorsReported :
                                DuplicateErrorsReported[i][2] = id })
                  = Occurrences(id, vtx.utxos) - 1
        /\ \A i \in DOMAIN DuplicateErrorsReported :
              DuplicateErrorsReported[i][2] \in Outpoints(vtx.utxos)
        /\ ~DistinctOutpoints(vtx.utxos) => ~report.valid
        /\ DistinctOutpoints(vtx.utxos) => DuplicateErrorsReported = <<>>

\* an outpoint occurring three times in an otherwise sound transaction: two
\* errors, both duplicates
C23_Witness ==
    /\ report.made
    /\ Len(vtx.utxos) = 3
    /\ Cardinality(Outpoints(vtx.utxos)) = 1
    /\ Len(report.errors) = 2
    /\ Len(DuplicateErrorsReported) = 2
    /\ ~report.valid

(***************************************************************************)
(* C24  The fee covers the final size: a transaction returned by build     *)
(* with a fee rate > 0 has fee > 0 and fee >= ceil(estimatedSize *         *)
(* byteFee), with equality whenever changeAmount > 0; a positive returned  *)
(* change always comes from a step whose fee was computed for two outputs. *)
(***************************************************************************)
\* ceil(estimatedSize * byteFee) of the returned transaction
FeeOfFinalSize == MathCeil(result.tx.estimatedSize * result.tx.byteFee, RateDen)

C24_FeeCoversFinalSize ==
    (BuiltTx /\ result.tx.byteFee > 0) =>
        /\ result.tx.fee > 0
        /\ result.tx.fee >= FeeOfFinalSize
        /\ result.tx.changeAmount > 0 =>
              /\ result.tx.fee = FeeOfFinalSize
              /\ frame.locals.outputCount = 2

\* a two-input transaction at the default rate with a change output
C24_Witness ==
    /\ BuiltTx
    /\ argOptions.feeRate = <<>>
    /\ Len(result.tx.utxos) = 2
    /\ result.tx.changeAmount > 0
    /\ result.tx.fee = FeeOfFinalSize

(***************************************************************************)
(* C25  Build then validate: a transaction returned by build with a fee    *)
(* rate > 0, from provider UTXOs with pairwise distinct (txid, vout) and   *)
(* non-negative values, with the change address omitted or passing the    *)
(* address predicate, is reported valid = true with no error by the        *)
(* validateTransaction of the same chain.                                  *)
(***************************************************************************)
BuiltAndValidated == BuiltTx /\ report.made /\ vsrc = "built"

C25_BuiltTransactionIsValid ==
    (BuiltAndValidated
        /\ result.tx.byteFee > 0
        /\ DistinctOutpoints(snapshot)
        /\ (\A i \in DOMAIN snapshot : snapshot[i].value >= 0)
        /\ (argOptions.changeAddress = <<>>
               \/ IsValidAddress(chain, argOptions.changeAddress[1])))
    => (report.valid /\ report.errors = <<>>)

\* a transaction with a supplied change address and a folded dust change
C25_Witness ==
    /\ BuiltAndValidated
    /\ argOptions.feeRate = <<>>
    /\ DistinctOutpoints(snapshot)
    /\ argOptions.changeAddress # <<>>
    /\ IsValidAddress(chain, result.tx.changeAddress)
    /\ result.tx.changeAddress # argFrom
    /\ result.tx.changeAmount = 0
    /\ result.tx.fee > FeeOfFinalSize
    /\ report.valid

(***************************************************************************)
(* C26  estimateTransactionCost agrees with build: on the same snapshot,   *)
(* amount and fee rate (valid addresses, amount >= dustLimit) it returns   *)
(* the fee and the estimatedSize of build with strategy largest-first, and *)
(* total = amount + fee; it fails, with the wrapped 'Failed to estimate    *)
(* cost' error, exactly when that build fails with InsufficientFunds.      *)
(***************************************************************************)
\* the current call is an estimate that ran on a non-empty snapshot, with
\* arguments build accepts
EstimateSettled ==
    /\ op = "estimate"
    /\ pc = "done"
    /\ fetched = "resolved"
    /\ snapshot # <<>>
    /\ IsValidAddress(chain, argFrom)
    /\ argOptions.amount >= DustLimit(chain)

\* what build has on the arguments and the snapshot of the current estimate
BuildOfEstimate ==
    AfterFetch(chain, "build", argFrom,
               [ toAddress |-> OwnAddress(chain), amount |-> argOptions.amount,
                 feeRate |-> argOptions.feeRate, changeAddress |-> <<>>,
                 strategy |-> <<"largest-first">> ],
               snapshot)

C26_EstimateAgreesWithBuild ==
    EstimateSettled =>
        /\ result.kind = "cost" <=> BuildOfEstimate.kind = "tx"
        /\ result.kind = "cost" =>
              /\ result.fee = BuildOfEstimate.tx.fee
              /\ result.estimatedSize = BuildOfEstimate.tx.estimatedSize
              /\ result.total = argOptions.amount + result.fee
        /\ result.kind = "error" =>
              /\ result.message = "Failed to estimate cost"
              /\ ErrorKind(BuildOfEstimate.message) = "InsufficientFunds"

(***************************************************************************)
(* C27  More funds never hurt: when selectUTXOs succeeds on a UTXO         *)
(* sequence, it also succeeds, for the same targetAmount, feeRate and      *)
(* strategy, on the sequence in which the value of one UTXO is increased;  *)
(* for a single UTXO, success with value v implies success with every      *)
(* larger value.                                                           *)
(***************************************************************************)
\* selectUTXOs of the builder of chain c: its locals at exit
SelectUTXOs(c, utxos, targetAmount, feeRate, strategy) ==
    IF c = "BTC" THEN BitcoinSelectUTXOs(utxos, targetAmount, feeRate, strategy)
    ELSE DogecoinSelectUTXOs(utxos, targetAmount, feeRate, strategy)

\* values a UTXO of the snapshot is compared with: those of the pool and the
\* amount plus the dust limit
ComparedValues ==
    { u.value : u \in Pool(chain) } \cup { frame.targetAmount + DustLimit(chain) }

\* the snapshot of the current selection with the value of its i-th UTXO set to v
WithValue(i, v) == [ frame.utxos EXCEPT ![i].value = v ]

\* stated from the side of the larger sequence: when selectUTXOs throws, it
\* throws as well with any one value decreased
C27_MoreFundsNeverHurt ==
    SelectThrew =>
        \A i \in DOMAIN frame.utxos : \A v \in ComparedValues :
            v < frame.utxos[i].value =>
                ~SelectUTXOs(chain, WithValue(i, v), frame.targetAmount,
                             frame.feeRate, frame.strategy).returned

(***************************************************************************)
(* C28  Sufficient funds guarantee success: for every strategy, when the   *)
(* sum of all N UTXO values is >= targetAmount + ceil(estimateSize(N, 2) * *)
(* feeRate), selectUTXOs returns a result; conversely every                *)
(* InsufficientFunds failure has a sum of all values below that amount.    *)
(***************************************************************************)
\* targetAmount + the fee of a transaction of all N UTXOs with two outputs
SufficientFunds ==
    frame.targetAmount
        + MathCeil(ProfileSize(chain, Len(frame.utxos), 2) * frame.feeRate, RateDen)

C28_SufficientFundsSucceed ==
    SelectRan =>
        /\ SumValues(frame.utxos) >= SufficientFunds => SelectReturned
        /\ SelectThrew =>
              /\ SumValues(frame.utxos) < SufficientFunds
              /\ Selection.have = SumValues(frame.utxos)

\* smallest-first needed all three UTXOs of a snapshot that holds enough
C28_Witness ==
    /\ SelectReturned
    /\ frame.strategy = "smallest-first"
    /\ Len(frame.utxos) = 3
    /\ Len(frame.locals.selectedUTXOs) = 3
    /\ SumValues(frame.utxos) >= SufficientFunds

(***************************************************************************)
(* C29  Independence from provider order: for each of the three           *)
(* strategies the returned totalInput, fee, change and number of selected  *)
(* inputs depend only on the multiset of UTXO values; any permutation of   *)
(* the provider's sequence gives the same four values, or the same         *)
(* InsufficientFunds failure.                                              *)
(***************************************************************************)
\* what the claim compares of a run of selectUTXOs with locals f at exit
OutcomeSummary(c, f, targetAmount) ==
    LET out == IF c = "BTC" THEN BitcoinSelectOutcome(f, targetAmount)
               ELSE DogecoinSelectOutcome(f, targetAmount)
    IN  IF out.ok
        THEN [ ok |-> TRUE, totalInput |-> out.totalInput, fee |-> out.fee,
               change |-> out.change, inputs |-> Len(out.selectedUTXOs) ]
        ELSE [ ok |-> FALSE, need |-> out.need, have |-> out.have ]

\* the snapshot of the current selection with its i-th and j-th UTXO exchanged
Exchanged(i, j) == [ frame.utxos EXCEPT ![i] = frame.utxos[j], ![j] = frame.utxos[i] ]

\* the selection on every snapshot that differs from the current one by an
\* exchange of two entries has the same summary (every permutation is a chain
\* of such exchanges, and every snapshot is the snapshot of some call)
SameOnExchanges ==
    \A i, j \in DOMAIN frame.utxos :
        OutcomeSummary(chain,
                       SelectUTXOs(chain, Exchanged(i, j), frame.targetAmount,
                                   frame.feeRate, frame.strategy),
                       frame.targetAmount)
            = OutcomeSummary(chain, frame.locals, frame.targetAmount)

\* as claimed: for each of the three strategies
C29_OrderIndependent == SelectRan => SameOnExchanges

\* two UTXOs of different value are equally far from targetAmount
DistanceTie ==
    \E i, j \in DOMAIN frame.utxos :
        /\ frame.utxos[i].value # frame.utxos[j].value
        /\ MathAbs(frame.utxos[i].value - frame.targetAmount)
              = MathAbs(frame.utxos[j].value - frame.targetAmount)

\* C29 as amended: for largest-first and smallest-first, and for optimal when
\* no two UTXOs of different value are equally far from targetAmount
C29_OrderIndependentButForDistanceTies ==
    (SelectRan /\ (frame.strategy = "optimal" => ~DistanceTie)) => SameOnExchanges

\* smallest-first on three UTXOs the provider returned largest first
C29_Witness ==
    /\ SelectReturned
    /\ frame.strategy = "smallest-first"
    /\ Len(frame.utxos) = 3
    /\ frame.utxos[1].value > frame.utxos[2].value
    /\ frame.utxos[2].value > frame.utxos[3].value
    /\ Len(frame.locals.selectedUTXOs) = 2
    /\ frame.locals.selectedUTXOs[1] = frame.utxos[3]

====
